---- MODULE Spec2Model ----
(***************************************************************************)
(* EdgePrompt runner: the JSON extraction and repair layer (json_utils),   *)
(* the model execution abstraction (ModelManager) and the multi-stage      *)
(* validation engine (EvaluationEngine.validate_with_sequence).            *)
(*                                                                         *)
(* Numbers that are floats in the program (scores, thresholds) are kept in *)
(* hundredths: 0.5 is 50, 8 is 800.                                        *)
(***************************************************************************)
EXTENDS Integers, Sequences, FiniteSets, TLC

VARIABLES
  \* json_utils.repair_json_with_llm, one call
  rText,      \* the text argument
  rMax,       \* the max_attempts argument
  rAttempt,   \* local attempt
  rCurrent,   \* local current_text
  rSent,      \* the current_text each repair prompt was built from, in order
  rCalls,     \* the texts llm_repair_func returned, in order
  rPc,        \* "idle" | "start" | "loop" | "done" | "raised"
  rResult     \* the returned object (NoneObj until the function returns)

VARIABLES
  \* EvaluationEngine.validate_with_sequence, one call
  vConfig,    \* what load_validation_sequence returns (NoConfig for None)
  vExec,      \* the llm_executor passed in: "edge" or "cloud" wrapper
  vSorted,    \* sorted_stages
  vIdx,       \* how many of sorted_stages the for loop has gone through
  vResults,   \* validation_result["stageResults"]
  vIsValid,   \* validation_result["isValid"]
  vScore,     \* validation_result["finalScore"] while stages run (hundredths)
  vFinal,     \* validation_result["finalScore"] as returned: num/den hundredths
  vFeedback,  \* the stage ids prefixed in validation_result["aggregateFeedback"]
  vMetrics,   \* len(all_metrics)
  vLog,       \* per stage gone through: what was called and what came back
  vAbortAt,   \* the position whose failure executed "break" (0: none)
  vPc         \* "idle" | "load" | "run" | "done" | "error" | "raised"

VARIABLES
  \* ModelManager.execute_cloud_llm / execute_edge_llm, one call from outside
  xEntry,     \* "cloud" (execute_cloud_llm) or "edge" (execute_edge_llm)
  xModel,     \* model_data: "mock", "unavailable", "real", "other_client"
  xJson,      \* JSON output asked for in params
  xCollector, \* the injected collector: which of its methods return
  xWaiting,   \* the generated texts of the execute_edge_llm frames waiting in
              \* llm_repair_func for the frame above them, outermost first
  xRet,       \* the result the frame that just returned hands to its caller
  xLog,       \* what the provider did on each backend request, in order
  xResult,    \* the result returned to the outside caller
  xPc         \* "idle" | "call" | "ret" | "returned" | "raised"

VARIABLES
  \* runner_cli.main and RunnerCore.run_test_suite, one run of the program
  sSuite,     \* the suite: how its set-up ends, mock mode, the test cases'
              \* teacher_request_context
  sCase,      \* the test case the loop is at
  sCombo,     \* the (hardware profile, edge model) combination the loop is at
  sHeap,      \* the dictionaries of the current test case, by object
  sShared,    \* the object test_case["shared_teacher_request"] refers to
  sCreated,   \* the content of that object when it was stored
  sTrCalls,   \* calls of _step_teacher_request for the current test case
  sRec,       \* run_data of the current combination
  sRun,       \* how many of the four run functions were called for run_data
  sCalls,     \* calls of each run function for run_data
  sLast,      \* run_results of the run function called last
  sLogged,    \* the (test case, combination) of each record appended and logged
  sErrors,    \* the errors _create_analysis_summary counts in those records
  sReturn,    \* what run_test_suite returned
  sExit,      \* the exit code of main (-1: still running)
  sPc         \* "idle" | "cli" | "start" | "case" | "combo" | "run" | "log" |
              \* "finish" | "returned" | "exited"

VARIABLES
  \* validate_and_fix_json_structure / parse_llm_json_output, one call
  jObj,       \* the parsed value given to validate_and_fix_json_structure
  jText,      \* the text given to parse_llm_json_output
  jFn,        \* the function that was called ("none": not yet)
  jOut,       \* the object it returned
  jPc         \* "idle" | "call" | "returned" | "raised"

VARIABLES
  \* ModelManager.loaded_models across initialize and unload calls
  mCache,     \* self.loaded_models: the cached handles, each with its key and mock flag
  mRet,       \* the last call: its arguments, how it ended, the handle returned
  mPc         \* "idle" | "ready"

VARIABLES
  \* MockModel.generate called repeatedly on one mock model with one prompt
  gModel,     \* the MockModel: model_type and model_id
  gPrompt,    \* the prompt: its words, whether it mentions json or teacher
  gJson,      \* kwargs: json_output
  gOut,       \* the results generate returned, in order
  gPc         \* "idle" | "call"

VARIABLES
  \* TemplateEngine.process_template, one call on a loaded template
  tPattern,   \* template["pattern"], as a sequence of words and [name] placeholders
  tVars,      \* the caller's variables: a value (or "absent") per name
  tDefaults,  \* template["variables"]: a default (or "absent") per name
  tPrompt,    \* the processed_prompt returned
  tPc         \* "idle" | "call" | "returned"

VARIABLES
  \* extract_json_from_text on a text, then on json.dumps of what it returned
  eText,      \* the text argument
  eOut,       \* what the call returned: (parsed_json, extraction_method)
  eAgain,     \* what extract_json_from_text(json.dumps(parsed_json)) returned
  ePc         \* "idle" | "call" | "extracted" | "again"

VARIABLES
  \* the timer of the shared metrics collector across the orchestrator's model calls
  kRunning,   \* the timer's start_time is set
  kLog,       \* the start_timer and stop_timer calls made so far, in order
  kCalls,     \* the timed operations so far: the entry point and what the provider did
  kPc         \* "idle" | "ready"

VARIABLES
  \* RunnerCore._create_analysis_summary, one call at the end of run_test_suite
  aResults,   \* test_suite_results: per record the statuses of run_1..run_4 and its error
  aSummary,   \* the summary returned
  aPc         \* "idle" | "call" | "returned"

repairVars == <<rText, rMax, rAttempt, rCurrent, rSent, rCalls, rPc, rResult>>

validateVars == <<vConfig, vExec, vSorted, vIdx, vResults, vIsValid, vScore, vFinal,
                  vFeedback, vMetrics, vLog, vAbortAt, vPc>>

execVars == <<xEntry, xModel, xJson, xCollector, xWaiting, xRet, xLog, xResult, xPc>>

suiteVars == <<sSuite, sCase, sCombo, sHeap, sShared, sCreated, sTrCalls, sRec, sRun,
               sCalls, sLast, sLogged, sErrors, sReturn, sExit, sPc>>

jsonVars == <<jObj, jText, jFn, jOut, jPc>>

cacheVars == <<mCache, mRet, mPc>>

mockVars == <<gModel, gPrompt, gJson, gOut, gPc>>

templateVars == <<tPattern, tVars, tDefaults, tPrompt, tPc>>

extractVars == <<eText, eOut, eAgain, ePc>>

timerVars == <<kRunning, kLog, kCalls, kPc>>

summaryVars == <<aResults, aSummary, aPc>>

vars == <<repairVars, validateVars, execVars, suiteVars, jsonVars, cacheVars, mockVars, templateVars, extractVars, timerVars, summaryVars>>

notRepairVars == <<validateVars, execVars, suiteVars, jsonVars, cacheVars, mockVars, templateVars, extractVars, timerVars, summaryVars>>
notValidateVars == <<repairVars, execVars, suiteVars, jsonVars, cacheVars, mockVars, templateVars, extractVars, timerVars, summaryVars>>
notExecVars == <<repairVars, validateVars, suiteVars, jsonVars, cacheVars, mockVars, templateVars, extractVars, timerVars, summaryVars>>
notSuiteVars == <<repairVars, validateVars, execVars, jsonVars, cacheVars, mockVars, templateVars, extractVars, timerVars, summaryVars>>
notJsonVars == <<repairVars, validateVars, execVars, suiteVars, cacheVars, mockVars, templateVars, extractVars, timerVars, summaryVars>>
notCacheVars == <<repairVars, validateVars, execVars, suiteVars, jsonVars, mockVars, templateVars, extractVars, timerVars, summaryVars>>
notMockVars == <<repairVars, validateVars, execVars, suiteVars, jsonVars, cacheVars, templateVars, extractVars, timerVars, summaryVars>>
notTemplateVars == <<repairVars, validateVars, execVars, suiteVars, jsonVars, cacheVars, mockVars, extractVars, timerVars, summaryVars>>
notExtractVars == <<repairVars, validateVars, execVars, suiteVars, jsonVars, cacheVars, mockVars, templateVars, timerVars, summaryVars>>
notTimerVars == <<repairVars, validateVars, execVars, suiteVars, jsonVars, cacheVars, mockVars, templateVars, extractVars, summaryVars>>
notSummaryVars == <<repairVars, validateVars, execVars, suiteVars, jsonVars, cacheVars, mockVars, templateVars, extractVars, timerVars>>

----------------------------------------------------------------------------
(* Bounds of the model *)

\* the largest max_attempts a caller passes to repair_json_with_llm
MaxAttempts == 3
\* how many distinct texts no extraction strategy can parse
MaxGarbage == 3
\* the longest stages list of a validation sequence
MaxStages == 2
\* how many times MockModel.generate is called with the same arguments
MaxCalls == 2
\* the longest template pattern, in words and placeholders
MaxPattern == 2
\* how many model calls the orchestrator makes on the shared timer
MaxTimedCalls == 3
\* how many records run_test_suite has logged when it builds the summary
MaxRecords == 2
\* how deep execute_edge_llm may nest through its own repair call
MaxDepth == 3
\* the test cases of the suite
MaxCases == 2
\* the (hardware profile, edge model) combinations of the suite
MaxCombos == 2

----------------------------------------------------------------------------
(* JSON values as the validation code reads them *)

\* json field "passed": a bool, a string, another value (v is its truthiness), or absent
PassedBool(b) == [ty |-> "bool", v |-> b, s |-> ""]
PassedStr(str) == [ty |-> "str", v |-> FALSE, s |-> str]
PassedOther(truthy) == [ty |-> "other", v |-> truthy, s |-> ""]
PassedMissing == [ty |-> "missing", v |-> FALSE, s |-> ""]

\* json field "score": an int/float n (hundredths), a numeric string, a string
\* float() rejects, a fraction string "n/d" (n, d whole numbers), a string with
\* a '/' whose parts float() rejects, another value (null, list), or absent
ScoreNum(n) == [ty |-> "num", n |-> n, d |-> 1]
ScoreStr(n) == [ty |-> "str", n |-> n, d |-> 1]
ScoreBadStr == [ty |-> "badstr", n |-> 0, d |-> 1]
ScoreFrac(n, d) == [ty |-> "frac", n |-> n, d |-> d]
ScoreBadFrac == [ty |-> "badfrac", n |-> 0, d |-> 1]
ScoreOther == [ty |-> "other", n |-> 0, d |-> 1]
ScoreMissing == [ty |-> "missing", n |-> 0, d |-> 1]

\* json field "feedback": a string, another value (s is what str() gives), or absent
FbStr(str) == [ty |-> "str", s |-> str]
FbOther(str) == [ty |-> "other", s |-> str]
FbMissing == [ty |-> "missing", s |-> ""]

\* a parsed JSON value: a dict with the three fields, a non-dict value (list,
\* number, string), or Python None
Dict(p, sc, f) == [shape |-> "dict", passed |-> p, score |-> sc, feedback |-> f]
NonDict == [shape |-> "list", passed |-> PassedMissing, score |-> ScoreMissing,
            feedback |-> FbMissing]
NoneObj == [shape |-> "none", passed |-> PassedMissing, score |-> ScoreMissing,
            feedback |-> FbMissing]

\* default_values of repair_json_with_llm / parse_llm_json_output
DefaultScore == 50
DefaultValues ==
  [passed |-> PassedBool(FALSE), score |-> ScoreNum(DefaultScore),
   feedback |-> FbStr("Failed to parse validation result.")]

\* {k: default_values.get(k) for k in required_keys}
DefaultsObj(defaults) == Dict(defaults.passed, defaults.score, defaults.feedback)

\* str.lower() on the strings the model uses
Lower(str) ==
  CASE str = "True" -> "true"
    [] str = "YES" -> "yes"
    [] OTHER -> str

\* parsed_json["passed"].lower() in ('true', 'yes', 'y', '1', 't')
TruthyStrings == {"true", "yes", "y", "1", "t"}

\* the coercion of "passed" to a bool
FixPassed(p) ==
  IF p.ty = "bool" THEN p
  ELSE IF p.ty = "str" THEN PassedBool(Lower(p.s) \in TruthyStrings)
  ELSE PassedBool(p.v)

\* the normalisation of a converted score to the 0-1 range
NormalizeScore(x) ==
  IF x > 100 /\ x <= 1000 THEN x \div 10
  ELSE IF x < 0 \/ x > 100 THEN (IF x < 0 THEN 0 ELSE 100)
  ELSE x

\* the conversion of a non-numeric "score"; raises ZeroDivisionError on "n/0".
\* An int or float score is left as it is: the normalisation sits inside the
\* "not isinstance(score, (int, float))" branch.
FixScore(sc, defaults) ==
  CASE sc.ty = "num" -> [raised |-> FALSE, score |-> sc]
    [] sc.ty = "str" -> [raised |-> FALSE, score |-> ScoreNum(NormalizeScore(sc.n))]
    [] sc.ty = "frac" ->
         IF sc.d = 0 THEN [raised |-> TRUE, score |-> sc]
         ELSE [raised |-> FALSE,
               score |-> ScoreNum(NormalizeScore((100 * sc.n) \div sc.d))]
    [] OTHER -> [raised |-> FALSE, score |-> ScoreNum(NormalizeScore(defaults.score.n))]

\* the coercion of "feedback" to a string
FixFeedback(f) == FbStr(f.s)

\* validate_and_fix_json_structure with required_keys = passed, score, feedback
ValidateAndFix(obj, defaults) ==
  IF obj.shape # "dict" THEN [raised |-> FALSE, obj |-> DefaultsObj(defaults)]
  ELSE
    LET p == IF obj.passed.ty = "missing" THEN defaults.passed ELSE obj.passed
        sc == IF obj.score.ty = "missing" THEN defaults.score ELSE obj.score
        f == IF obj.feedback.ty = "missing" THEN defaults.feedback ELSE obj.feedback
        fs == FixScore(sc, defaults)
    IN  IF fs.raised THEN [raised |-> TRUE, obj |-> NoneObj]
        ELSE [raised |-> FALSE, obj |-> Dict(FixPassed(p), fs.score, FixFeedback(f))]

----------------------------------------------------------------------------
(* Texts a model returns, by what extract_json_from_text does with them *)

\* forms: "none" (Python None), "empty" (empty or whitespace), "direct" (json.loads accepts the whole
\* text), "fenced" (JSON inside a ``` block with prose around it), "garbage"
\* (no strategy parses it; tag tells such texts apart);
\* further forms, all with prose around the payload: "fenced_fixable" (a
\* ``` block whose payload parses after the light repair), "inline" (JSON
\* between single backticks), "braces" (a flat JSON object in the prose),
\* "keyvalue" (key: value pairs with unquoted keys), "fenced_bad_braces"
\* (a ``` block with no JSON in it, then a flat JSON object in the prose).
\* For texts that hold a payload, tag 0 is the spelling json.dumps writes
\* and another tag a different spelling of the same value.
TextOf(form, obj, tag) == [form |-> form, obj |-> obj, tag |-> tag]
EmptyText == TextOf("empty", NoneObj, 0)
NoneText == TextOf("none", NoneObj, 0)
Garbage(tag) == TextOf("garbage", NoneObj, tag)
DirectJson(obj) == TextOf("direct", obj, 0)
FencedJson(obj) == TextOf("fenced", obj, 0)

\* the extraction patterns in the order of the list extraction_patterns
\* (the two code block patterns share their method name)
ExtractionPatterns == <<"markdown_code_block", "inline_code", "json_object", "key_value_pairs">>

\* the method name returned when the candidate parsed after the light repair
FixedMethod(method) ==
  CASE method = "markdown_code_block" -> "markdown_code_block_fixed"
    [] method = "inline_code" -> "inline_code_fixed"
    [] method = "json_object" -> "json_object_fixed"
    [] OTHER -> "key_value_pairs_fixed"

\* json.loads(text) succeeds on the whole text
DirectParses(t) == t.form = "direct"

\* what the matches of a pattern give on a text: "parses" (json.loads accepts
\* a match), "fixable" (it accepts one after the light repair), "no" (no
\* match, or none that parses)
Found(t, method) ==
  CASE method = "markdown_code_block" ->
         IF t.form = "fenced" THEN "parses"
         ELSE IF t.form = "fenced_fixable" THEN "fixable" ELSE "no"
    [] method = "inline_code" -> IF t.form = "inline" THEN "parses" ELSE "no"
    [] method = "json_object" ->
         IF /\ t.form \in {"direct", "fenced", "inline", "braces", "fenced_bad_braces"}
            /\ t.obj.shape = "dict"
         THEN "parses" ELSE "no"
    [] OTHER -> IF t.form = "keyvalue" THEN "fixable" ELSE "no"

\* the direct parse is not tried
ExtractJsonFromTextNoDirect(t) ==
  IF t.form \in {"none", "empty"} THEN [obj |-> NoneObj, method |-> "empty_input"]
  ELSE LET hits == {i \in 1..Len(ExtractionPatterns) : Found(t, ExtractionPatterns[i]) # "no"}
       IN  IF hits = {} THEN [obj |-> NoneObj, method |-> "extraction_failed"]
           ELSE LET m == ExtractionPatterns[CHOOSE i \in hits : \A j \in hits : i <= j]
                IN  [obj |-> t.obj,
                     method |-> IF Found(t, m) = "fixable" THEN FixedMethod(m) ELSE m]

\* extract_json_from_text: (parsed_json, extraction_method)
ExtractJsonFromText(t) ==
  IF t.form \in {"none", "empty"} THEN [obj |-> NoneObj, method |-> "empty_input"]
  ELSE IF DirectParses(t) THEN [obj |-> t.obj, method |-> "direct_parse"]
  ELSE LET hits == {i \in 1..Len(ExtractionPatterns) : Found(t, ExtractionPatterns[i]) # "no"}
       IN  IF hits = {} THEN [obj |-> NoneObj, method |-> "extraction_failed"]
           ELSE LET m == ExtractionPatterns[CHOOSE i \in hits : \A j \in hits : i <= j]
                IN  [obj |-> t.obj,
                     method |-> IF Found(t, m) = "fixable" THEN FixedMethod(m) ELSE m]

\* json.dumps(obj): the whole text is JSON, in the spelling dumps writes
JsonDumps(obj) == TextOf("direct", obj, 0)

\* parsed_json is not None
Extracted(t) == ExtractJsonFromText(t).obj.shape # "none"

\* parse_llm_json_output
ParseLlmJsonOutput(t, defaults) ==
  IF ~Extracted(t) THEN [raised |-> FALSE, obj |-> DefaultsObj(defaults)]
  ELSE ValidateAndFix(ExtractJsonFromText(t).obj, defaults)

----------------------------------------------------------------------------
(* One call of validate_and_fix_json_structure or of parse_llm_json_output *)

\* scores around the limits 0, 1 and 10 of the normalisation
ScoreValues == {-50, 0, 50, 100, 150, 800, 1000, 1500}
\* numerators and denominators of "n/d" score strings
FracNumerators == {1, 7, 15}
FracDenominators == {0, 2, 10}

JsonScores ==
  {ScoreNum(n) : n \in ScoreValues} \cup {ScoreStr(n) : n \in ScoreValues}
    \cup {ScoreFrac(n, d) : n \in FracNumerators, d \in FracDenominators}
    \cup {ScoreBadStr, ScoreBadFrac, ScoreOther, ScoreMissing}

JsonPassed == {PassedBool(TRUE), PassedStr("YES"), PassedMissing}

JsonFeedbacks == {FbStr("ok"), FbMissing}

\* the values json.loads can hand to validate_and_fix_json_structure
JsonObjects ==
  {Dict(p, sc, f) : p \in JsonPassed, sc \in JsonScores, f \in JsonFeedbacks}
    \cup {NonDict}

\* no call of the JSON layer is under way
JsonIdle ==
  /\ jObj = NoneObj
  /\ jText = NoneText
  /\ jFn = "none"
  /\ jOut = NoneObj
  /\ jPc = "idle"

\* a caller is about to call one of the two functions with some input
JsonInit ==
  /\ jObj \in JsonObjects
  /\ jText \in {DirectJson(jObj), FencedJson(jObj), Garbage(1), EmptyText}
  /\ jFn = "none"
  /\ jOut = NoneObj
  /\ jPc = "call"

\* validate_and_fix_json_structure(parsed_json, required_keys, default_values)
CallValidateAndFix ==
  /\ jPc = "call"
  /\ LET out == ValidateAndFix(jObj, DefaultValues)
     IN  /\ jOut' = out.obj
         /\ jPc' = IF out.raised THEN "raised" ELSE "returned"
  /\ jFn' = "validate_and_fix_json_structure"
  /\ UNCHANGED <<jObj, jText>>
  /\ UNCHANGED notJsonVars

\* parse_llm_json_output(text, required_keys, default_values)
CallParseLlmJsonOutput ==
  /\ jPc = "call"
  /\ LET out == ParseLlmJsonOutput(jText, DefaultValues)
     IN  /\ jOut' = out.obj
         /\ jPc' = IF out.raised THEN "raised" ELSE "returned"
  /\ jFn' = "parse_llm_json_output"
  /\ UNCHANGED <<jObj, jText>>
  /\ UNCHANGED notJsonVars

JsonNext == CallValidateAndFix \/ CallParseLlmJsonOutput

----------------------------------------------------------------------------
(* EvaluationEngine.validate_with_sequence *)

\* load_validation_sequence returned None
NoConfig == [stages |-> <<>>, abortOnFailure |-> TRUE, passing_threshold |-> 0,
             loaded |-> FALSE]

\* stage["template_id"]: "" (empty or null: the key must be there, its value
\* need not be), the name of a template that does not load, of one that
\* process_template raises on, of one that renders
TemplateIds == {"", "absent_template", "malformed_template", "ok_template"}
\* stage.get("priority", 0)
Priorities == {0, 1}
\* stage.get("weight", 1.0)
Weights == {1}
\* validation_sequence_config.get("passing_threshold", 0.6)
DefaultThreshold == 60

StageConfigs ==
  [template_id : TemplateIds, priority : Priorities, weight : Weights,
   abortOnFailure : BOOLEAN]

\* the stages lists of up to MaxStages stages
RECURSIVE StageLists(_)
StageLists(n) ==
  IF n = 0 THEN {<<>>}
  ELSE LET shorter == StageLists(n - 1)
       IN  shorter \cup {Append(l, c) : l \in {x \in shorter : Len(x) = n - 1},
                                          c \in StageConfigs}

\* the sequence files load_validation_sequence accepts (a dict with "id" and
\* a "stages" list, possibly empty, whose stages have "id" and "template_id")
LoadedConfigs ==
  [stages : StageLists(MaxStages), abortOnFailure : BOOLEAN,
   passing_threshold : {DefaultThreshold}, loaded : {TRUE}]

\* the stage with its "id": its place in the stages list as configured
WithId(stages, i) ==
  [id |-> i, template_id |-> stages[i].template_id, priority |-> stages[i].priority,
   weight |-> stages[i].weight, abortOnFailure |-> stages[i].abortOnFailure]

\* a variant that puts x before the stages of its own priority
InsertByPriorityTiesFirst(sorted, x) ==
  LET k == Cardinality({i \in 1..Len(sorted) : sorted[i].priority > x.priority})
  IN  SubSeq(sorted, 1, k) \o <<x>> \o SubSeq(sorted, k + 1, Len(sorted))

\* a stable insertion: x goes behind every stage of priority >= its own
InsertByPriority(sorted, x) ==
  LET k == Cardinality({i \in 1..Len(sorted) : sorted[i].priority >= x.priority})
  IN  SubSeq(sorted, 1, k) \o <<x>> \o SubSeq(sorted, k + 1, Len(sorted))

\* sorted(validation_stages, key=lambda s: s.get("priority", 0), reverse=True)
RECURSIVE SortedFirst(_, _)
SortedFirst(stages, n) ==
  IF n = 0 THEN <<>>
  ELSE InsertByPriority(SortedFirst(stages, n - 1), WithId(stages, n))

SortStages(stages) == SortedFirst(stages, Len(stages))

\* TemplateEngine.process_template as the stage loop sees it: a prompt, a
\* (None, metadata) tuple, or an exception
ProcessTemplate(template_id) ==
  CASE template_id = "ok_template" -> "prompt"
    [] template_id = "malformed_template" -> "raise"
    [] OTHER -> "none"

\* what the backend does with one validation prompt: answers with a text,
\* fails with an error the executor reports, or makes the executor raise
StageOutputObjects ==
  { Dict(PassedBool(TRUE), ScoreNum(100), FbStr("ok")),
    Dict(PassedBool(TRUE), ScoreNum(800), FbStr("")),
    Dict(PassedBool(FALSE), ScoreNum(30), FbStr("off topic")),
    Dict(PassedMissing, ScoreNum(90), FbStr("ok")),
    Dict(PassedBool(TRUE), ScoreFrac(1, 0), FbStr("ok")) }

BackendOutcomes ==
  {[kind |-> "text", text |-> DirectJson(o)] : o \in StageOutputObjects}
    \cup {[kind |-> "text", text |-> Garbage(1)],
          [kind |-> "text", text |-> EmptyText],
          [kind |-> "error", text |-> NoneText],
          [kind |-> "raise", text |-> NoneText]}

\* the dict the llm_executor returns. The edge wrapper (_execute_edge_llm)
\* gives ModelManager.execute_edge_llm's dict, whose text is under
\* "generated_text"; the cloud wrapper (_execute_cloud_llm_interaction) gives
\* execute_cloud_llm's, whose text is under "llm_output".
ExecutorResult(exec, outcome) ==
  [raised |-> outcome.kind = "raise",
   error |-> outcome.kind = "error",
   key |-> IF exec = "edge" THEN "generated_text" ELSE "llm_output",
   text |-> IF outcome.kind = "text" THEN outcome.text ELSE NoneText]

\* llm_result.get("generated_text", "")
GeneratedText(result) ==
  IF result.key = "generated_text" THEN result.text ELSE EmptyText

\* self._parse_json_from_llm_output(generated_text): raises ValueError on an
\* empty or None text, and lets validate_and_fix's ZeroDivisionError through
ParseJsonFromLlmOutput(t) ==
  IF t.form \in {"none", "empty"} THEN [raised |-> TRUE, obj |-> NoneObj]
  ELSE ParseLlmJsonOutput(t, DefaultValues)

\* if validation_sequence_config.get("abortOnFailure", True): break
AbortsOnFailure(config, stage) == config.abortOnFailure

\* total_weight = sum(stage.get("weight", 1.0) for stage in sorted_stages)
RECURSIVE TotalWeight(_, _)
TotalWeight(sorted, n) ==
  IF n = 0 THEN 0 ELSE TotalWeight(sorted, n - 1) + sorted[n].weight

\* a variant that divides whatever the total weight is
NormalizedScoreNoGuard(score, sorted) ==
  [num |-> score, den |-> TotalWeight(sorted, Len(sorted))]

\* the lines after the loop: normalisation and the passing threshold
NormalizedScore(score, sorted) ==
  LET total == TotalWeight(sorted, Len(sorted))
  IN  IF total > 0 THEN [num |-> score, den |-> total] ELSE [num |-> score, den |-> 1]

\* a variant that never finds the score below the threshold
BelowThresholdNever(final, config) == FALSE

BelowThreshold(final, config) == final.num < config.passing_threshold * final.den

\* a variant in which a failed stage adds its weighted score too
WeightedScoreAlways(passed, score, weight) == score * weight

\* what a parsed stage output adds to finalScore
WeightedScore(passed, score, weight) == IF passed THEN score * weight ELSE 0

\* a stageResults entry appended for a technical error
TechnicalEntry(pos, stage) ==
  [pos |-> pos, stageId |-> stage.id, passed |-> FALSE, score |-> 0, technical |-> TRUE]

\* a stageResults entry appended from a parsed stage output
StageEntry(pos, stage, obj) ==
  [pos |-> pos, stageId |-> stage.id, passed |-> obj.passed.v, score |-> obj.score.n,
   technical |-> FALSE]

\* what one pass of the for loop does with the stage at position pos, given
\* what the backend does: the stageResults entry if any, whether the executor
\* was called, whether the loop breaks
StagePass(config, exec, pos, stage, outcome) ==
  LET skip == [entry |-> <<>>, called |-> FALSE, valid |-> TRUE, add |-> 0,
               break |-> FALSE, feedback |-> <<>>, metrics |-> 0, verdict |-> "skipped"]
      technical(called, metrics, brk, why) ==
        [entry |-> <<TechnicalEntry(pos, stage)>>, called |-> called, valid |-> FALSE,
         add |-> 0, break |-> brk, feedback |-> <<stage.id>>, metrics |-> metrics,
         verdict |-> why]
      result == ExecutorResult(exec, outcome)
      parsed == ParseJsonFromLlmOutput(GeneratedText(result))
  IN  IF stage.template_id = "" THEN skip
      ELSE IF ProcessTemplate(stage.template_id) # "prompt"
        THEN technical(FALSE, 0, FALSE, "template")
      ELSE IF result.raised
        THEN technical(TRUE, 0, AbortsOnFailure(config, stage), "exception")
      ELSE IF parsed.raised
        THEN technical(TRUE, 1, AbortsOnFailure(config, stage), "exception")
      ELSE
        [entry |-> <<StageEntry(pos, stage, parsed.obj)>>,
         called |-> TRUE,
         valid |-> parsed.obj.passed.v,
         add |-> WeightedScore(parsed.obj.passed.v, parsed.obj.score.n, stage.weight),
         break |-> ~parsed.obj.passed.v /\ AbortsOnFailure(config, stage),
         feedback |-> IF parsed.obj.feedback.s # "" THEN <<stage.id>> ELSE <<>>,
         metrics |-> 1,
         verdict |-> IF parsed.obj.passed.v THEN "passed" ELSE "failed"]

\* a call of a method of the injected metrics collector returns or raises
\* (the engine and the model manager take the collector as a constructor
\* argument; MetricsCollector as in metrics_collector.py has no merge_metrics,
\* start_timer, stop_timer, record_tokens or get_results: AttributeError)
CollectorCall == {"returns", "raises"}

\* no call of validate_with_sequence is under way
ValidateIdle ==
  /\ vConfig = NoConfig
  /\ vExec = "edge"
  /\ vSorted = <<>>
  /\ vIdx = 0
  /\ vResults = <<>>
  /\ vIsValid = TRUE
  /\ vScore = 0
  /\ vFinal = [num |-> 0, den |-> 1]
  /\ vFeedback = <<>>
  /\ vMetrics = 0
  /\ vLog = <<>>
  /\ vAbortAt = 0
  /\ vPc = "idle"

ValidateInit ==
  /\ vConfig \in {NoConfig} \cup LoadedConfigs
  /\ vExec \in {"edge", "cloud"}
  /\ vSorted = <<>>
  /\ vIdx = 0
  /\ vResults = <<>>
  /\ vIsValid = TRUE
  /\ vScore = 0
  /\ vFinal = [num |-> 0, den |-> 1]
  /\ vFeedback = <<>>
  /\ vMetrics = 0
  /\ vLog = <<>>
  /\ vAbortAt = 0
  /\ vPc = "load"

\* stage.get("weight", 1.0) in the sequences used to examine the scoring
ScoreWeights == {0, 1, 2}
\* passing_threshold of those sequences
Thresholds == {30, DefaultThreshold}

\* their stages: a stage without template_id is skipped, the others render
WeightedStageConfigs ==
  [template_id : {"", "ok_template"}, priority : {0}, weight : ScoreWeights,
   abortOnFailure : {TRUE}]

RECURSIVE WeightedStageLists(_)
WeightedStageLists(n) ==
  IF n = 0 THEN {<<>>}
  ELSE LET shorter == WeightedStageLists(n - 1)
       IN  shorter \cup {Append(l, c) : l \in {x \in shorter : Len(x) = n - 1},
                                          c \in WeightedStageConfigs}

WeightedConfigs ==
  [stages : WeightedStageLists(MaxStages), abortOnFailure : BOOLEAN,
   passing_threshold : Thresholds, loaded : {TRUE}]

\* validate_with_sequence is called with a sequence of weighted stages and
\* the edge executor
ScoreInit ==
  /\ vConfig \in WeightedConfigs
  /\ vExec = "edge"
  /\ vSorted = <<>>
  /\ vIdx = 0
  /\ vResults = <<>>
  /\ vIsValid = TRUE
  /\ vScore = 0
  /\ vFinal = [num |-> 0, den |-> 1]
  /\ vFeedback = <<>>
  /\ vMetrics = 0
  /\ vLog = <<>>
  /\ vAbortAt = 0
  /\ vPc = "load"

\* the sequence is loaded, its stages sorted, the result initialised; a
\* sequence that does not load or has no stages returns an error result
LoadSequence ==
  /\ vPc = "load"
  /\ IF ~vConfig.loaded \/ vConfig.stages = <<>>
       THEN /\ vPc' = "error"
            /\ vIsValid' = FALSE
            /\ vSorted' = vSorted
       ELSE /\ vPc' = "run"
            /\ vIsValid' = TRUE
            /\ vSorted' = SortStages(vConfig.stages)
  /\ UNCHANGED <<vConfig, vExec, vIdx, vResults, vScore, vFinal, vFeedback, vMetrics,
                 vLog, vAbortAt>>
  /\ UNCHANGED notValidateVars

\* one pass of the for loop; when it is the last (the loop breaks or runs
\* out of stages) the score is normalised, the threshold applied, the
\* metrics merged and the result returned
RunStage ==
  /\ vPc = "run"
  /\ vIdx < Len(vSorted)
  /\ \E outcome \in BackendOutcomes, merge \in CollectorCall :
       LET pos == vIdx + 1
           stage == vSorted[pos]
           pass == StagePass(vConfig, vExec, pos, stage, outcome)
           last == pass.break \/ pos = Len(vSorted)
           score == vScore + pass.add
           final == NormalizedScore(score, vSorted)
           valid == vIsValid /\ pass.valid
       IN  /\ vIdx' = pos
           /\ vResults' = vResults \o pass.entry
           /\ vScore' = score
           /\ vFeedback' = vFeedback \o pass.feedback
           /\ vMetrics' = vMetrics + pass.metrics
           /\ vLog' = Append(vLog, [pos |-> pos, called |-> pass.called,
                                     verdict |-> pass.verdict,
                                     backend |-> IF pass.called THEN outcome
                                                 ELSE [kind |-> "none", text |-> NoneText]])
           /\ vAbortAt' = IF pass.break THEN pos ELSE vAbortAt
           /\ (~last => merge = "returns")
           /\ IF last
                THEN /\ vFinal' = final
                     /\ vIsValid' = (valid /\ ~BelowThreshold(final, vConfig))
                     /\ vPc' = IF merge = "returns" THEN "done" ELSE "raised"
                ELSE /\ vFinal' = vFinal
                     /\ vIsValid' = valid
                     /\ vPc' = "run"
  /\ UNCHANGED <<vConfig, vExec, vSorted>>
  /\ UNCHANGED notValidateVars

----------------------------------------------------------------------------
(* extract_json_from_text, and the round trip through json.dumps *)

\* the forms of non-empty text that hold a payload
PayloadForms ==
  {"direct", "fenced", "fenced_fixable", "inline", "braces", "keyvalue", "fenced_bad_braces"}

\* the texts given to extract_json_from_text: a payload in one of the forms
\* (key: value pairs and the light repair are for objects only), a text no
\* pattern parses, an empty text
ExtractTexts ==
  {t \in {TextOf(f, o, tag) : f \in PayloadForms, o \in StageOutputObjects \cup {NonDict},
                              tag \in {0, 1}} :
     t.form \in {"fenced_fixable", "keyvalue", "braces", "fenced_bad_braces"}
       => t.obj.shape = "dict"}
    \cup {Garbage(1), EmptyText}

NoExtraction == [obj |-> NoneObj, method |-> "none"]

ExtractIdle ==
  /\ eText = NoneText
  /\ eOut = NoExtraction
  /\ eAgain = NoExtraction
  /\ ePc = "idle"

ExtractInit ==
  /\ eText \in ExtractTexts
  /\ eOut = NoExtraction
  /\ eAgain = NoExtraction
  /\ ePc = "call"

\* extract_json_from_text(text)
ExtractCall ==
  /\ ePc = "call"
  /\ eOut' = ExtractJsonFromText(eText)
  /\ ePc' = "extracted"
  /\ UNCHANGED <<eText, eAgain>>
  /\ UNCHANGED notExtractVars

\* extract_json_from_text(json.dumps(parsed_json)) for a parsed_json that is
\* not None
ExtractAgain ==
  /\ ePc = "extracted"
  /\ eOut.obj.shape # "none"
  /\ eAgain' = ExtractJsonFromText(JsonDumps(eOut.obj))
  /\ ePc' = "again"
  /\ UNCHANGED <<eText, eOut>>
  /\ UNCHANGED notExtractVars

ExtractNext == ExtractCall \/ ExtractAgain

----------------------------------------------------------------------------
(* json_utils.repair_json_with_llm *)

\* objects the repair texts carry
RepairObjects ==
  { Dict(PassedBool(FALSE), ScoreNum(50), FbStr("fixed")),
    Dict(PassedStr("YES"), ScoreStr(800), FbMissing),
    Dict(PassedBool(TRUE), ScoreFrac(1, 0), FbStr("x")),
    NonDict }

RepairTexts ==
  {EmptyText} \cup {Garbage(g) : g \in 1..MaxGarbage}
    \cup {DirectJson(o) : o \in RepairObjects}
    \cup {FencedJson(Dict(PassedBool(TRUE), ScoreNum(90), FbStr("ok")))}

\* the loop guard off by one
LoopContinuesOffByOne(attempt, max) == attempt <= max

\* while attempt < max_attempts
LoopContinues(attempt, max) == attempt < max

\* the round without the "repaired_text == current_text" test
RoundOutcomeNoIdentical(current, repaired) ==
  IF Extracted(repaired) THEN "parsed" ELSE "retry"

\* one round after llm_repair_func returned: "identical" (break), "parsed"
\* (validate and return) or "retry" (current_text = repaired_text)
RoundOutcome(current, repaired) ==
  IF repaired = current THEN "identical"
  ELSE IF Extracted(repaired) THEN "parsed"
  ELSE "retry"

\* no call of repair_json_with_llm is under way
RepairIdle ==
  /\ rText = EmptyText
  /\ rMax = 0
  /\ rAttempt = 0
  /\ rCurrent = EmptyText
  /\ rSent = <<>>
  /\ rCalls = <<>>
  /\ rPc = "idle"
  /\ rResult = NoneObj

RepairInit ==
  /\ rText \in RepairTexts
  /\ rMax \in 0..MaxAttempts
  /\ rAttempt = 0
  /\ rCurrent = rText
  /\ rSent = <<>>
  /\ rCalls = <<>>
  /\ rPc = "start"
  /\ rResult = NoneObj

\* the parsed object dropped and the defaults returned in its place
ReturnValidatedDefaults(t) ==
  /\ rPc' = "done"
  /\ rResult' = DefaultsObj(DefaultValues)

\* return validate_and_fix_json_structure(parsed_json, ...)
ReturnValidated(t) ==
  LET v == ValidateAndFix(ExtractJsonFromText(t).obj, DefaultValues)
  IN  /\ rPc' = (IF v.raised THEN "raised" ELSE "done")
      /\ rResult' = v.obj

\* "First try standard parsing"
RepairEnter ==
  /\ rPc = "start"
  /\ IF Extracted(rText)
       THEN ReturnValidated(rText)
       ELSE rPc' = "loop" /\ rResult' = rResult
  /\ UNCHANGED <<rText, rMax, rAttempt, rCurrent, rSent, rCalls>>
  /\ UNCHANGED notRepairVars

\* one iteration of the while loop; repaired is what llm_repair_func returns
RepairRound ==
  /\ rPc = "loop"
  /\ LoopContinues(rAttempt, rMax)
  /\ \E repaired \in RepairTexts :
       LET out == RoundOutcome(rCurrent, repaired)
       IN  /\ rAttempt' = rAttempt + 1
           /\ rSent' = Append(rSent, rCurrent)
           /\ rCalls' = Append(rCalls, repaired)
           /\ CASE out = "identical" ->
                     /\ rPc' = "done"
                     /\ rResult' = DefaultsObj(DefaultValues)
                     /\ rCurrent' = rCurrent
                [] out = "parsed" ->
                     /\ ReturnValidated(repaired)
                     /\ rCurrent' = rCurrent
                [] OTHER ->
                     /\ rPc' = "loop"
                     /\ rResult' = rResult
                     /\ rCurrent' = repaired
  /\ UNCHANGED <<rText, rMax>>
  /\ UNCHANGED notRepairVars

\* the loop condition fails: "JSON repair failed after N attempts"
RepairExhausted ==
  /\ rPc = "loop"
  /\ ~LoopContinues(rAttempt, rMax)
  /\ rPc' = "done"
  /\ rResult' = DefaultsObj(DefaultValues)
  /\ UNCHANGED <<rText, rMax, rAttempt, rCurrent, rSent, rCalls>>
  /\ UNCHANGED notRepairVars

RepairNext == RepairEnter \/ RepairRound \/ RepairExhausted

----------------------------------------------------------------------------
(* ModelManager: execute_cloud_llm, execute_edge_llm, _execute_model_call,
   repair_json_with_llm *)

\* a result dict: "error" absent, the empty string or a message; the text
\* under the result key; "json_repaired"
Result(error, output, repaired) ==
  [error |-> error, output |-> output, repaired |-> repaired]

NoResult == Result("absent", NoneText, FALSE)

\* a function returned this result / let an exception out
Returned(result) == [raised |-> FALSE, result |-> result]
Raised == [raised |-> TRUE, result |-> NoResult]

\* result.get("error") is truthy
HasError(result) == result.error = "message"

\* the collectors a ModelManager may be given: each method returns (TRUE) or
\* raises, start_time is truthy or not when the except clause reads it
Collectors ==
  [start_timer : BOOLEAN, stop_timer : BOOLEAN, record_tokens : BOOLEAN,
   get_results : BOOLEAN, start_time : BOOLEAN]

\* MetricsCollector of metrics_collector.py: none of the four methods, and
\* start_time None
SourceCollector ==
  [start_timer |-> FALSE, stop_timer |-> FALSE, record_tokens |-> FALSE,
   get_results |-> FALSE, start_time |-> FALSE]

PlainObj == Dict(PassedBool(TRUE), ScoreNum(90), FbStr("ok"))
ZeroFracObj == Dict(PassedBool(TRUE), ScoreFrac(1, 0), FbStr("ok"))

\* what api_call() does: returns the provider's text (None when the
\* response has no content) or raises, str(e) being a message or empty
ProviderOutcomes ==
  {[kind |-> "text", text |-> t, error |-> "absent"] :
       t \in {DirectJson(PlainObj), DirectJson(ZeroFracObj), FencedJson(PlainObj),
              Garbage(1), EmptyText, NoneText}}
    \cup {[kind |-> "raise", text |-> NoneText, error |-> e] : e \in {"message", "empty"}}

\* the except clause of _execute_model_call
ExceptClause(c, err) ==
  IF c.start_time /\ ~c.stop_timer THEN Raised
  ELSE IF ~c.get_results THEN Raised
  ELSE Returned(Result(err, NoneText, FALSE))

\* the mutant: the success path without the len(output_text) it logs
ExecuteModelCallNoLen(c, o) ==
  IF ~c.start_timer THEN ExceptClause(c, "message")
  ELSE IF o.kind = "raise" THEN ExceptClause(c, o.error)
  ELSE IF ~c.stop_timer \/ ~c.record_tokens \/ ~c.get_results
    THEN ExceptClause(c, "message")
  ELSE Returned(Result("absent", o.text, FALSE))

\* _execute_model_call with collector c when api_call() does o
ExecuteModelCall(c, o) ==
  IF ~c.start_timer THEN ExceptClause(c, "message")
  ELSE IF o.kind = "raise" THEN ExceptClause(c, o.error)
  ELSE IF ~c.stop_timer \/ ~c.record_tokens \/ ~c.get_results
    THEN ExceptClause(c, "message")
  ELSE IF o.text.form = "none" THEN ExceptClause(c, "message")
  ELSE Returned(Result("absent", o.text, FALSE))

\* api_call() was reached: start_timer() returned
Requested(c) == c.start_timer

\* MockModel.generate: the texts it may return for this model type
MockTexts(entry, json) ==
  IF ~json THEN {Garbage(0)}
  ELSE IF entry = "cloud"
    THEN {DirectJson(Dict(PassedMissing, ScoreMissing, FbMissing))}
  ELSE {DirectJson(Dict(PassedBool(b), ScoreNum(75), FbStr("mock"))) : b \in BOOLEAN}

\* the early returns of execute_cloud_llm and execute_edge_llm
ErrorResult == Result("message", NoneText, FALSE)

\* the lines of execute_edge_llm after _execute_model_call returned result:
\* return it, raise, or go into the repair of its text
AfterModelCall(json, result) ==
  IF ~(json /\ ~HasError(result)) THEN [next |-> "return", result |-> result]
  ELSE IF result.output.form = "none" THEN [next |-> "raise", result |-> NoResult]
  ELSE IF result.output.form = "direct" THEN [next |-> "return", result |-> result]
  ELSE IF Extracted(result.output)
    THEN [next |-> "return",
          result |-> Result(result.error,
                            DirectJson(ExtractJsonFromText(result.output).obj), TRUE)]
  ELSE IF LoopContinues(0, 1) THEN [next |-> "repair", result |-> result]
  ELSE [next |-> "return",
        result |-> Result(result.error, DirectJson(DefaultsObj(DefaultValues)), TRUE)]

\* llm_repair_func: the text handed back to json_utils.repair_json_with_llm
LlmRepairFunc(text, inner) == IF HasError(inner) THEN text ELSE inner.output

\* the frame that generated text, from the return of its repair call (the
\* one round max_attempts=1 allows) to its own return
AfterRepairCall(text, inner) ==
  LET repaired == LlmRepairFunc(text, inner)
      outcome == RoundOutcome(text, repaired)
      v == ValidateAndFix(ExtractJsonFromText(repaired).obj, DefaultValues)
  IN  IF outcome = "parsed"
        THEN IF v.raised THEN Raised
             ELSE Returned(Result("absent", DirectJson(v.obj), TRUE))
      ELSE Returned(Result("absent", DirectJson(DefaultsObj(DefaultValues)), TRUE))

\* no call of the model manager is under way
ExecIdle ==
  /\ xEntry = "edge"
  /\ xModel = "mock"
  /\ xJson = FALSE
  /\ xCollector = SourceCollector
  /\ xWaiting = <<>>
  /\ xRet = NoResult
  /\ xLog = <<>>
  /\ xResult = NoResult
  /\ xPc = "idle"

ExecInit ==
  /\ xEntry \in {"cloud", "edge"}
  /\ xModel \in {"mock", "unavailable", "real", "other_client"}
  /\ xModel = "other_client" => xEntry = "edge"
  /\ xJson \in BOOLEAN
  /\ xCollector \in Collectors
  /\ xWaiting = <<>>
  /\ xRet = NoResult
  /\ xLog = <<>>
  /\ xResult = NoResult
  /\ xPc = "call"

\* a frame is over, the frames in waiting still waiting: its result goes to
\* the innermost of them, or outside
Finish(outcome, waiting) ==
  /\ xWaiting' = waiting
  /\ IF outcome.raised
       THEN /\ xPc' = "raised"
            /\ UNCHANGED <<xRet, xResult>>
     ELSE IF waiting = <<>>
       THEN /\ xPc' = "returned"
            /\ xResult' = outcome.result
            /\ UNCHANGED xRet
     ELSE /\ xPc' = "ret"
          /\ xRet' = outcome.result
          /\ UNCHANGED xResult

\* execute_cloud_llm
ExecuteCloudLlm ==
  /\ xPc = "call"
  /\ xEntry = "cloud"
  /\ IF xModel = "mock"
       THEN \E t \in MockTexts("cloud", xJson) :
              /\ Finish(Returned(Result("absent", t, FALSE)), xWaiting)
              /\ UNCHANGED xLog
     ELSE IF xModel = "unavailable"
       THEN /\ Finish(Returned(ErrorResult), xWaiting)
            /\ UNCHANGED xLog
     ELSE \E o \in ProviderOutcomes :
            /\ xLog' = IF Requested(xCollector) THEN Append(xLog, o) ELSE xLog
            /\ Finish(ExecuteModelCall(xCollector, o), xWaiting)
  /\ UNCHANGED <<xEntry, xModel, xJson, xCollector>>
  /\ UNCHANGED notExecVars

\* execute_edge_llm, up to its return or to the call it makes of itself
\* through repair_json_output; the frames inside are real calls asking JSON
ExecuteEdgeLlm ==
  /\ xPc = "call"
  /\ xEntry = "edge"
  /\ IF xModel = "mock"
       THEN \E t \in MockTexts("edge", xJson) :
              /\ Finish(Returned(Result("absent", t, FALSE)), xWaiting)
              /\ UNCHANGED xLog
     ELSE IF xModel \in {"unavailable", "other_client"}
       THEN /\ Finish(Returned(ErrorResult), xWaiting)
            /\ UNCHANGED xLog
     ELSE \E o \in ProviderOutcomes :
            LET call == ExecuteModelCall(xCollector, o)
                json == xJson \/ xWaiting # <<>>
                after == AfterModelCall(json, call.result)
            IN  /\ xLog' = IF Requested(xCollector) THEN Append(xLog, o) ELSE xLog
                /\ IF call.raised THEN Finish(Raised, xWaiting)
                   ELSE IF after.next = "raise" THEN Finish(Raised, xWaiting)
                   ELSE IF after.next = "return"
                     THEN Finish(Returned(after.result), xWaiting)
                   ELSE /\ Len(xWaiting) < MaxDepth
                        /\ xWaiting' = Append(xWaiting, call.result.output)
                        /\ xPc' = "call"
                        /\ UNCHANGED <<xRet, xResult>>
  /\ UNCHANGED <<xEntry, xModel, xJson, xCollector>>
  /\ UNCHANGED notExecVars

\* the innermost waiting frame gets the result of its repair call and goes
\* on to its own return
RepairCallReturns ==
  /\ xPc = "ret"
  /\ xWaiting # <<>>
  /\ Finish(AfterRepairCall(xWaiting[Len(xWaiting)], xRet),
            SubSeq(xWaiting, 1, Len(xWaiting) - 1))
  /\ UNCHANGED <<xEntry, xModel, xJson, xCollector, xLog>>
  /\ UNCHANGED notExecVars

----------------------------------------------------------------------------
(* ModelManager: _initialize_model and unload_model on the cache loaded_models *)

ModelTypes == {"cloud_llm", "edge_llm"}
ModelIds == {"m1", "m2"}
\* model_key = f"{model_type}:{model_id}"
ModelKey(type, id) == <<type, id>>
\* what load_model_config and the provider set-up do for a model id:
\* the configuration is missing, names an unsupported provider or client
\* type, or is usable
ConfigOutcomes == {"missing", "unsupported", "usable"}

\* the handle a call stores and returns
Handle(key, mock) == [key |-> key, mock |-> mock]
\* model_key in self.loaded_models
Cached(cache, key) == \E h \in cache : h.key = key
\* self.loaded_models[model_key]
CachedHandle(cache, key) == CHOOSE h \in cache : h.key = key
\* del self.loaded_models[model_key]
DictDel(cache, key) == {h \in cache : h.key # key}
\* self.loaded_models[model_key] = model_config
DictSet(cache, key, h) == DictDel(cache, key) \cup {h}

NoCall == [op |-> "none", key |-> ModelKey("edge_llm", "m1"), mock |-> FALSE,
           st |-> "none", before |-> "absent", reused |-> FALSE,
           handle |-> Handle(ModelKey("edge_llm", "m1"), FALSE)]

\* the mock flag of the cached handle of a key, as a call finds it
Before(cache, key) ==
  IF ~Cached(cache, key) THEN "absent"
  ELSE IF CachedHandle(cache, key).mock THEN "mock" ELSE "real"

\* a cached handle is returned whatever its mock flag
InitializeModelReuseAny(cache, key, mock, cfg) ==
  IF Cached(cache, key)
  THEN [cache |-> cache, st |-> "returned", reused |-> TRUE,
        handle |-> CachedHandle(cache, key)]
  ELSE IF cfg = "missing" \/ (~mock /\ cfg = "unsupported")
  THEN [cache |-> cache, st |-> "raised", reused |-> FALSE, handle |-> Handle(key, mock)]
  ELSE [cache |-> DictSet(cache, key, Handle(key, mock)), st |-> "returned",
        reused |-> FALSE, handle |-> Handle(key, mock)]

\* _initialize_model(model_id, model_type, mock_mode): the cache afterwards,
\* whether it returned or raised, and the handle returned
InitializeModel(cache, key, mock, cfg) ==
  IF Cached(cache, key) /\ ~mock /\ ~CachedHandle(cache, key).mock
  THEN [cache |-> cache, st |-> "returned", reused |-> TRUE,
        handle |-> CachedHandle(cache, key)]
  ELSE IF mock /\ Cached(cache, key) /\ CachedHandle(cache, key).mock
  THEN [cache |-> cache, st |-> "returned", reused |-> TRUE,
        handle |-> CachedHandle(cache, key)]
  ELSE LET \* a cached mock handle is deleted when a real one is asked for
           c1 == IF Cached(cache, key) /\ ~mock THEN DictDel(cache, key) ELSE cache
       IN  IF cfg = "missing"
           THEN [cache |-> c1, st |-> "raised", reused |-> FALSE,
                 handle |-> Handle(key, mock)]
           ELSE IF mock
           THEN [cache |-> DictSet(c1, key, Handle(key, TRUE)), st |-> "returned",
                 reused |-> FALSE, handle |-> Handle(key, TRUE)]
           ELSE IF cfg = "unsupported"
           THEN [cache |-> c1, st |-> "raised", reused |-> FALSE,
                 handle |-> Handle(key, mock)]
           ELSE [cache |-> DictSet(c1, key, Handle(key, FALSE)), st |-> "returned",
                 reused |-> FALSE, handle |-> Handle(key, FALSE)]

\* the model manager is not in use
CacheIdle ==
  /\ mCache = {}
  /\ mRet = NoCall
  /\ mPc = "idle"

\* ModelManager.__init__: the cache starts empty
CacheInit ==
  /\ mCache = {}
  /\ mRet = NoCall
  /\ mPc = "ready"

\* initialize_cloud_llm(model_id, mock_mode)
InitializeCloudLlm ==
  /\ mPc = "ready"
  /\ \E id \in ModelIds, mock \in BOOLEAN, cfg \in ConfigOutcomes :
       LET key == ModelKey("cloud_llm", id)
           out == InitializeModel(mCache, key, mock, cfg)
       IN  /\ mCache' = out.cache
           /\ mRet' = [op |-> "initialize", key |-> key, mock |-> mock, st |-> out.st,
                       before |-> Before(mCache, key), reused |-> out.reused,
                       handle |-> out.handle]
  /\ UNCHANGED mPc
  /\ UNCHANGED notCacheVars

\* initialize_edge_llm(model_id, mock_mode)
InitializeEdgeLlm ==
  /\ mPc = "ready"
  /\ \E id \in ModelIds, mock \in BOOLEAN, cfg \in ConfigOutcomes :
       LET key == ModelKey("edge_llm", id)
           out == InitializeModel(mCache, key, mock, cfg)
       IN  /\ mCache' = out.cache
           /\ mRet' = [op |-> "initialize", key |-> key, mock |-> mock, st |-> out.st,
                       before |-> Before(mCache, key), reused |-> out.reused,
                       handle |-> out.handle]
  /\ UNCHANGED mPc
  /\ UNCHANGED notCacheVars

\* unload_model(model_id, model_type)
UnloadModel ==
  /\ mPc = "ready"
  /\ \E id \in ModelIds, type \in ModelTypes :
       LET key == ModelKey(type, id)
       IN  /\ mCache' = IF Cached(mCache, key) THEN DictDel(mCache, key) ELSE mCache
           /\ mRet' = [NoCall EXCEPT !.op = "unload", !.key = key, !.st = "returned",
                                     !.before = Before(mCache, key)]
  /\ UNCHANGED mPc
  /\ UNCHANGED notCacheVars

CacheNext == InitializeCloudLlm \/ InitializeEdgeLlm \/ UnloadModel

----------------------------------------------------------------------------
(* MockModel.generate *)

\* prompts by what generate reads of them: len(prompt.split()) and whether
\* prompt.lower() contains "json" or "teacher"
MockPrompts ==
  {[words |-> 3, json |-> FALSE, teacher |-> FALSE],
   [words |-> 5, json |-> TRUE, teacher |-> FALSE],
   [words |-> 5, json |-> TRUE, teacher |-> TRUE]}

\* random.randint(6, 9)
CloudScores == {600, 700, 800, 900}
\* random.choice([True, True, False])
EdgePassed == {TRUE, FALSE}
\* random.uniform(0.5, 1.0): both ends and a value between
EdgeScores == {50, 75, 100}
\* random.randint(40, 120): both ends
EdgeWordCounts == {40, 120}

\* the texts generate can build for a model, a prompt and json_output
MockGeneratedTexts(model, prompt, json) ==
  LET expect_json == json \/ prompt.json
  IN  IF ~expect_json
      THEN {[kind |-> "text", type |-> model.type, id |-> model.id]}
      ELSE IF model.type = "cloud_llm"
      THEN {[kind |-> "json", type |-> model.type, id |-> model.id,
             role |-> IF prompt.teacher THEN "teacher" ELSE "student",
             passed |-> TRUE, score |-> sc, word_count |-> 0] : sc \in CloudScores}
      ELSE {[kind |-> "json", type |-> model.type, id |-> model.id, role |-> "none",
             passed |-> p, score |-> sc, word_count |-> w] :
               p \in EdgePassed, sc \in EdgeScores, w \in EdgeWordCounts}

\* len(generated_text.split()): the fixed sentences have 10 and 11 words
\* and the dumped objects 24 and 16, whatever the values drawn
CompletionTokens(text) ==
  IF text.kind = "text" THEN (IF text.type = "cloud_llm" THEN 10 ELSE 11)
  ELSE IF text.type = "cloud_llm" THEN 24 ELSE 16

\* the result dictionary of generate
MockResult(prompt, text) ==
  [generated_text |-> text, input_tokens |-> prompt.words,
   output_tokens |-> CompletionTokens(text)]

MockIdle ==
  /\ gModel = [type |-> "edge_llm", id |-> "m1"]
  /\ gPrompt = [words |-> 3, json |-> FALSE, teacher |-> FALSE]
  /\ gJson = FALSE
  /\ gOut = <<>>
  /\ gPc = "idle"

\* a mock model and the arguments it is about to be called with
MockInit ==
  /\ gModel \in [type : ModelTypes, id : ModelIds]
  /\ gPrompt \in MockPrompts
  /\ gJson \in BOOLEAN
  /\ gOut = <<>>
  /\ gPc = "call"

\* MockModel.generate(prompt, json_output=...)
MockGenerate ==
  /\ gPc = "call"
  /\ Len(gOut) < MaxCalls
  /\ \E text \in MockGeneratedTexts(gModel, gPrompt, gJson) :
       gOut' = Append(gOut, MockResult(gPrompt, text))
  /\ UNCHANGED <<gModel, gPrompt, gJson, gPc>>
  /\ UNCHANGED notMockVars

----------------------------------------------------------------------------
(* TemplateEngine.process_template: the substitution of the placeholders *)

\* the variable names VAR_PATTERN can find
VarNames == {"a", "b"}
\* the text "[name]" and a text with no bracket in it
Placeholder(name) == <<"placeholder", name>>
Word == <<"word", "w">>
\* the name is not a key of the dictionary
Absent == <<<<"absent", "">>>>

\* template["pattern"]
Patterns ==
  UNION {[1..n -> {Placeholder(v) : v \in VarNames} \cup {Word}] : n \in 1..MaxPattern}

\* str(value) of a variable: empty, a word, or text that reads as a placeholder
ValueTexts == {<<>>, <<Word>>} \cup {<<Placeholder(v)>> : v \in VarNames}

\* set(self.VAR_PATTERN.findall(pattern))
FoundVarsInPattern(pattern) ==
  {v \in VarNames : \E i \in 1..Len(pattern) : pattern[i] = Placeholder(v)}

\* substitution_vars[var_name]: the provided value, else the template's
\* default, else the empty string
SubstitutionVars(variables, defaults, v) ==
  IF variables[v] # Absent THEN variables[v]
  ELSE IF defaults[v] # Absent THEN defaults[v]
  ELSE <<>>

\* processed_prompt.replace(placeholder, value_str): every occurrence of the
\* placeholder in the text, left to right; the values put in are not rescanned
RECURSIVE Replace(_, _, _)
Replace(text, v, value) ==
  IF text = <<>> THEN <<>>
  ELSE (IF Head(text) = Placeholder(v) THEN value ELSE <<Head(text)>>)
         \o Replace(Tail(text), v, value)

\* the orders in which "for var_name in found_vars_in_pattern" can go
\* through the set
IterationOrders(found) ==
  {o \in UNION {[1..n -> found] : n \in 0..Cardinality(VarNames)} :
     /\ Len(o) = Cardinality(found)
     /\ \A i, j \in 1..Len(o) : i # j => o[i] # o[j]}

\* the substitution loop, in a given order
RECURSIVE SubstituteAll(_, _, _, _)
SubstituteAll(text, order, variables, defaults) ==
  IF order = <<>> THEN text
  ELSE SubstituteAll(Replace(text, Head(order),
                             SubstitutionVars(variables, defaults, Head(order))),
                     Tail(order), variables, defaults)

TemplateIdle ==
  /\ tPattern = <<>>
  /\ tVars = [v \in VarNames |-> Absent]
  /\ tDefaults = [v \in VarNames |-> Absent]
  /\ tPrompt = <<>>
  /\ tPc = "idle"

\* a loaded template with no constraints, and the caller's variables
TemplateInit ==
  /\ tPattern \in Patterns
  /\ tVars \in [VarNames -> ValueTexts \cup {Absent}]
  /\ tDefaults \in [VarNames -> {<<Word>>, Absent}]
  /\ tPrompt = <<>>
  /\ tPc = "call"

\* process_template(template_name, variables)
ProcessTemplateCall ==
  /\ tPc = "call"
  /\ \E order \in IterationOrders(FoundVarsInPattern(tPattern)) :
       tPrompt' = SubstituteAll(tPattern, order, tVars, tDefaults)
  /\ tPc' = "returned"
  /\ UNCHANGED <<tPattern, tVars, tDefaults>>
  /\ UNCHANGED notTemplateVars

----------------------------------------------------------------------------
(* The timer of the shared metrics collector: _execute_model_call and
   evaluate_with_llm_proxy *)

\* start_timer(): the timer runs from now on
StartTimer(t) == [running |-> TRUE, log |-> Append(t.log, "start")]
\* stop_timer(): the timer no longer runs
StopTimer(t) == [running |-> FALSE, log |-> Append(t.log, "stop")]

\* what the provider call between start_timer and stop_timer does: returns a
\* text that is valid JSON, one that is not, None for the text, or raises
TimedOutcomes == {"json", "not_json", "none", "raise"}

\* the except clause does not stop the timer
TimedCallNoExceptStop(t, o) ==
  IF o = "raise" THEN StartTimer(t) ELSE StopTimer(StartTimer(t))

\* the timer calls of _execute_model_call and of the try block of
\* evaluate_with_llm_proxy: start, the provider call, stop; an exception of
\* the provider call or of a later line goes to the except clause, which
\* stops the timer if start_time is set
TimedCall(t, o) ==
  LET started == StartTimer(t)
      except(u) == IF u.running THEN StopTimer(u) ELSE u
  IN  IF o = "raise" THEN except(started)
      ELSE IF o = "none" THEN except(StopTimer(started))
      ELSE StopTimer(started)

\* execute_edge_llm with json_output on a real model: the call, and when the
\* text is not valid JSON the follow-up call of the repair, made after
\* _execute_model_call has returned
EdgeCallWithRepair(t, o, repair) ==
  IF o = "not_json" THEN TimedCall(TimedCall(t, o), repair) ELSE TimedCall(t, o)

TimerIdle ==
  /\ kRunning = FALSE
  /\ kLog = <<>>
  /\ kCalls = <<>>
  /\ kPc = "idle"

\* the orchestrator has built its one collector; the timer does not run
TimerInit ==
  /\ kRunning = FALSE
  /\ kLog = <<>>
  /\ kCalls = <<>>
  /\ kPc = "ready"

\* execute_cloud_llm on a real model
TimedCloudCall ==
  /\ kPc = "ready"
  /\ Len(kCalls) < MaxTimedCalls
  /\ \E o \in TimedOutcomes :
       LET t == TimedCall([running |-> kRunning, log |-> kLog], o)
       IN  /\ kRunning' = t.running
           /\ kLog' = t.log
           /\ kCalls' = Append(kCalls, <<"execute_cloud_llm", o, o>>)
  /\ UNCHANGED kPc
  /\ UNCHANGED notTimerVars

\* execute_edge_llm on a real model, JSON output asked for
TimedEdgeCall ==
  /\ kPc = "ready"
  /\ Len(kCalls) < MaxTimedCalls
  /\ \E o \in TimedOutcomes, repair \in TimedOutcomes \ {"not_json"} :
       LET t == EdgeCallWithRepair([running |-> kRunning, log |-> kLog], o, repair)
       IN  /\ kRunning' = t.running
           /\ kLog' = t.log
           /\ kCalls' = Append(kCalls, <<"execute_edge_llm", o,
                                         IF o = "not_json" THEN repair ELSE o>>)
  /\ UNCHANGED kPc
  /\ UNCHANGED notTimerVars

\* evaluate_with_llm_proxy
TimedProxyEvaluation ==
  /\ kPc = "ready"
  /\ Len(kCalls) < MaxTimedCalls
  /\ \E o \in TimedOutcomes :
       LET t == TimedCall([running |-> kRunning, log |-> kLog], o)
       IN  /\ kRunning' = t.running
           /\ kLog' = t.log
           /\ kCalls' = Append(kCalls, <<"evaluate_with_llm_proxy", o, o>>)
  /\ UNCHANGED kPc
  /\ UNCHANGED notTimerVars

TimerNext == TimedCloudCall \/ TimedEdgeCall \/ TimedProxyEvaluation

----------------------------------------------------------------------------
(* RunnerCore.run_test_suite, its four run functions, and runner_cli.main *)

\* how the set-up of run_test_suite ends
SetupOutcomes ==
  {"ok", "load_failed", "no_cloud_model", "no_edge_models", "cloud_init_failed",
   "no_run_parameters"}

\* teacher_request_context of a test case: key absent, or a dict with a topic
CtxKinds == {"missing", "with_topic"}

\* topic of the test case (variables.topic and teacher_request_context.topic)
CaseTopic == "fractions"
\* another topic the large model may put into the teacher request
OtherTopic == "volcanoes"

\* a dict by its topic value and the keys added to it after it was built
EmptyDict == [topic |-> "absent", keys |-> {}]

Truthy(d) == d # EmptyDict

\* the keys _step_teacher_request adds to teacher_request_context in real mode
RealModeKeys == {"source_material_summary", "previous_common_errors"}

\* the dictionaries of a test case before anything ran: teacher_request_context,
\* the teacher request parsed in run_test_suite (tr), a request built inside a
\* run function (own)
InitialHeap(suite) ==
  [ctx |-> IF suite.ctx = "with_topic" THEN [topic |-> CaseTopic, keys |-> {}]
           ELSE EmptyDict,
   tr  |-> EmptyDict,
   own |-> EmptyDict]

\* what the large model returns for the teacher request in real mode
TeacherLlm == {"error", CaseTopic, OtherTopic}

\* _step_teacher_request: the step result (error, the object parsed_content
\* refers to) and the dictionaries afterwards; fresh names the new object
StepTeacherRequest(heap, suite, llm, fresh) ==
  IF suite.mock
  THEN IF Truthy(heap.ctx)
       THEN [error |-> FALSE, ref |-> "ctx", heap |-> heap]
       ELSE [error |-> FALSE, ref |-> fresh,
             heap |-> [heap EXCEPT ![fresh] = [topic |-> CaseTopic, keys |-> {}]]]
  ELSE LET h1 == IF suite.ctx = "missing" THEN heap
                 ELSE [heap EXCEPT !.ctx.keys = @ \cup RealModeKeys]
       IN IF llm = "error"
          THEN [error |-> TRUE, ref |-> "none", heap |-> h1]
          ELSE [error |-> FALSE, ref |-> fresh,
                heap |-> [h1 EXCEPT ![fresh] = [topic |-> llm, keys |-> {}]]]

\* {**teacher_request, **teacher_request_context}
MergeDicts(tr, ctx) ==
  [topic |-> IF ctx.topic # "absent" THEN ctx.topic ELSE tr.topic,
   keys  |-> tr.keys \cup ctx.keys]

\* a variant that merges the context into the teacher request itself
StepGenerateStructuredQuestionInPlace(heap, ref) ==
  [vars |-> MergeDicts(heap[ref], heap.ctx),
   heap |-> [heap EXCEPT ![ref] = MergeDicts(heap[ref], heap.ctx)]]

\* _step_generate_structured_question: the template variables, and the
\* dictionaries afterwards
StepGenerateStructuredQuestion(heap, ref) ==
  [vars |-> MergeDicts(heap[ref], heap.ctx), heap |-> heap]

\* _step_generate_structured_question_edge
StepGenerateStructuredQuestionEdge(heap, ref) ==
  [vars |-> MergeDicts(heap[ref], heap.ctx), heap |-> heap]

\* d.get("topic", "a relevant topic")
TopicOr(d) == IF d.topic = "absent" THEN "a relevant topic" ELSE d.topic

\* _step_generate_simple_question: the topic written into the prompt
StepGenerateSimpleQuestion(heap, shared) ==
  IF shared # "none" /\ Truthy(heap[shared]) THEN TopicOr(heap[shared])
  ELSE TopicOr(heap.ctx)

\* _step_generate_simple_question_edge
StepGenerateSimpleQuestionEdge(heap, shared) ==
  IF shared # "none" /\ Truthy(heap[shared]) THEN TopicOr(heap[shared])
  ELSE TopicOr(heap.ctx)

\* a call that may raise: it returns or it raises
CallOutcome == {"returns", "raises"}

\* a model step: it gives a text, or an error result or an empty text
LlmStep == {"text", "error"}

\* _step_multistage_validation(_edge): isValid true, isValid false, or an
\* error result
ValidationOutcomes == {"valid", "invalid", "error"}

\* _step_constraint_enforcement: the "passed" of its result
ConstraintOutcomes == {"passed", "failed"}

\* _execute_cloud_llm_interaction for the review: the model was called, or the
\* persona template did not render and it returned before the call
ReviewOutcomes == {"called", "no_call"}

\* a variant of the review trigger that needs both to have failed
ReviewNeededBoth(isValid, passed) == ~isValid /\ ~passed

\* the review trigger of _run_cloud_edgeprompt
ReviewNeeded(isValid, passed) == ~isValid \/ ~passed

\* run_results of a run function
RunResults(run, status, steps, topic, valid, passed, review, request) ==
  [run |-> run, status |-> status, steps |-> steps, topic |-> topic,
   valid |-> valid, passed |-> passed, review |-> review, request |-> request]

\* no run function was called yet
NoRun == RunResults(0, "pending", <<>>, "none", "none", "none", "none", "none")

\* the status a run function leaves in run_results
RunStatus(failed) == IF failed THEN "failed" ELSE "completed"

BaselineSteps ==
  <<"generated_question", "student_answer", "baseline_evaluation",
    "constraint_enforcement">>

\* where a baseline question step reads its topic from
BaselineRequest(heap, shared) ==
  IF shared # "none" /\ Truthy(heap[shared]) THEN "shared" ELSE "test_case"

\* _run_cloud_baseline up to its metrics aggregation
RunCloudBaseline(heap, shared, q, a) ==
  LET topic == StepGenerateSimpleQuestion(heap, shared)
      req == BaselineRequest(heap, shared)
  IN IF q = "error"
     THEN RunResults(1, RunStatus(TRUE), SubSeq(BaselineSteps, 1, 1), topic,
                     "none", "none", "none", req)
     ELSE IF a = "error"
     THEN RunResults(1, RunStatus(TRUE), SubSeq(BaselineSteps, 1, 2), topic,
                     "none", "none", "none", req)
     ELSE RunResults(1, RunStatus(FALSE), BaselineSteps, topic,
                     "none", "none", "none", req)

\* _run_edge_baseline up to its metrics aggregation
RunEdgeBaseline(heap, shared, q, a) ==
  LET topic == StepGenerateSimpleQuestionEdge(heap, shared)
      req == BaselineRequest(heap, shared)
  IN IF q = "error"
     THEN RunResults(3, RunStatus(TRUE), SubSeq(BaselineSteps, 1, 1), topic,
                     "none", "none", "none", req)
     ELSE IF a = "error"
     THEN RunResults(3, RunStatus(TRUE), SubSeq(BaselineSteps, 1, 2), topic,
                     "none", "none", "none", req)
     ELSE RunResults(3, RunStatus(FALSE), BaselineSteps, topic,
                     "none", "none", "none", req)

EdgePromptSteps ==
  <<"teacher_request", "generated_question", "student_answer",
    "multi_stage_validation", "constraint_enforcement">>

\* a variant in which run 2 always generates a request of its own
NeedsOwnRequestAlways(heap, shared) == TRUE

\* "if not teacher_request_content" in the EdgePrompt runs
NeedsOwnRequest(heap, shared) == shared = "none" \/ ~Truthy(heap[shared])

\* _run_cloud_edgeprompt up to its metrics aggregation: run_results, the
\* dictionaries afterwards, and whether _step_teacher_request was called
RunCloudEdgeprompt(heap, shared, suite, llm, q, a, v, c, r) ==
  LET own == NeedsOwnRequest(heap, shared)
      t == StepTeacherRequest(heap, suite, llm, "own")
      h1 == IF own THEN t.heap ELSE heap
      ref == IF own THEN t.ref ELSE shared
      req == IF own THEN "generated" ELSE "shared"
      sq == StepGenerateStructuredQuestion(h1, ref)
  IN IF own /\ t.error
     THEN [heap |-> h1, called |-> own,
           res |-> RunResults(2, RunStatus(TRUE), SubSeq(EdgePromptSteps, 1, 1),
                              "none", "none", "none", "none", req)]
     ELSE IF q = "error"
     THEN [heap |-> sq.heap, called |-> own,
           res |-> RunResults(2, RunStatus(TRUE), SubSeq(EdgePromptSteps, 1, 2),
                              sq.vars.topic, "none", "none", "none", req)]
     ELSE IF a = "error"
     THEN [heap |-> sq.heap, called |-> own,
           res |-> RunResults(2, RunStatus(TRUE), SubSeq(EdgePromptSteps, 1, 3),
                              sq.vars.topic, "none", "none", "none", req)]
     ELSE IF v = "error"
     THEN [heap |-> sq.heap, called |-> own,
           res |-> RunResults(2, RunStatus(TRUE), SubSeq(EdgePromptSteps, 1, 4),
                              sq.vars.topic, v, "none", "none", req)]
     ELSE [heap |-> sq.heap, called |-> own,
           res |-> RunResults(2, RunStatus(FALSE),
                              Append(EdgePromptSteps, "teacher_review"),
                              sq.vars.topic, v, c,
                              IF ReviewNeeded(v = "valid", c = "passed") THEN r
                              ELSE "not_executed",
                              req)]

\* _run_edge_edgeprompt up to its metrics aggregation
RunEdgeEdgeprompt(heap, shared, q, a, v, c) ==
  LET fallback == NeedsOwnRequest(heap, shared)
      h1 == IF fallback /\ ~Truthy(heap.ctx)
            THEN [heap EXCEPT !.own = [topic |-> CaseTopic, keys |-> {}]]
            ELSE heap
      ref == IF ~fallback THEN shared
             ELSE IF Truthy(heap.ctx) THEN "ctx" ELSE "own"
      req == IF shared # "none" /\ Truthy(heap[shared]) THEN "shared"
             ELSE "test_case"
      sq == StepGenerateStructuredQuestionEdge(h1, ref)
  IN IF q = "error"
     THEN [heap |-> sq.heap,
           res |-> RunResults(4, RunStatus(TRUE), SubSeq(EdgePromptSteps, 1, 2),
                              sq.vars.topic, "none", "none", "none", req)]
     ELSE IF a = "error"
     THEN [heap |-> sq.heap,
           res |-> RunResults(4, RunStatus(TRUE), SubSeq(EdgePromptSteps, 1, 3),
                              sq.vars.topic, "none", "none", "none", req)]
     ELSE IF v = "error"
     THEN [heap |-> sq.heap,
           res |-> RunResults(4, RunStatus(TRUE), SubSeq(EdgePromptSteps, 1, 4),
                              sq.vars.topic, v, "none", "none", req)]
     ELSE [heap |-> sq.heap,
           res |-> RunResults(4, RunStatus(FALSE), EdgePromptSteps,
                              sq.vars.topic, v, c, "none", req)]

\* _step_multistage_validation around a call of validate_with_sequence that
\* ended at pc with isValid: an error result (returned by the engine, or built
\* from its exception), or the engine's result
StepMultistageValidation(pc, isValid) ==
  IF pc \in {"error", "raised"} THEN "error"
  ELSE IF isValid THEN "valid" ELSE "invalid"

\* the exception that leaves validate_with_sequence when it ended at pc: the
\* stage loop catches every exception of a stage, the ValueError of
\* _parse_json_from_llm_output included, so only the one of merge_metrics,
\* called after the loop, gets out
EngineException(pc) == IF pc = "raised" THEN "merge_metrics" ELSE "none"

\* _step_multistage_validation_edge: the sequences it calls
\* validate_with_sequence with, given the exception the first call ended in.
\* The retry is in the handler of a ValueError whose message has
\* "VALIDATION ERROR" and "JSON" or "parse" in it.
SequencesTried(sequence_id, exc) ==
  IF exc = "validation_error_json" /\ sequence_id # "simplified_validation_sequence"
  THEN <<sequence_id, "simplified_validation_sequence">>
  ELSE <<sequence_id>>

\* _create_run_data_struct: the statuses of run_1..run_4 and the record's error
CreateRunDataStruct ==
  [runs |-> [k \in 1..4 |-> "pending"], error |-> FALSE]

\* the errors _create_analysis_summary counts in one record
RecordErrors(rec) ==
  (IF rec.error THEN 1 ELSE 0)
  + Cardinality({k \in 1..4 : rec.runs[k] = "failed"})

\* _create_analysis_summary, without its per-status counters
CreateAnalysisSummary(logged, errors) ==
  [test_suite_id |-> "suite", total_runs_attempted |-> Len(logged),
   total_runs_logged |-> Len(logged), runs_with_errors |-> errors]

\* run_test_suite has not returned
NoReturn == [none |-> TRUE]

\* _log_and_return_error
LogAndReturnError(message) == [error |-> message]

\* results.get(key, default)
DictGet(d, key, default) == IF key \in DOMAIN d THEN d[key] ELSE default

\* main: the exit code for what run_test_suite returned
ExitCode(results) ==
  IF DictGet(results, "error_count", 0) > 0 THEN 1 ELSE 0

\* the loops of run_test_suite: where they go after combination combo of
\* test case case
AfterCombination(case, combo) ==
  IF combo < MaxCombos THEN [pc |-> "combo", case |-> case, combo |-> combo + 1]
  ELSE IF case < MaxCases THEN [pc |-> "case", case |-> case + 1, combo |-> 1]
  ELSE [pc |-> "finish", case |-> case, combo |-> combo]

\* "continue" of the test case loop
AfterTestCase(case) ==
  IF case < MaxCases THEN [pc |-> "case", case |-> case + 1, combo |-> 1]
  ELSE [pc |-> "finish", case |-> case, combo |-> 1]

\* the program is not running
SuiteIdle ==
  /\ sSuite = [setup |-> "ok", mock |-> TRUE, ctx |-> "missing"]
  /\ sCase = 1
  /\ sCombo = 1
  /\ sHeap = InitialHeap(sSuite)
  /\ sShared = "none"
  /\ sCreated = EmptyDict
  /\ sTrCalls = 0
  /\ sRec = CreateRunDataStruct
  /\ sRun = 0
  /\ sCalls = [k \in 1..4 |-> 0]
  /\ sLast = NoRun
  /\ sLogged = <<>>
  /\ sErrors = 0
  /\ sReturn = NoReturn
  /\ sExit = -1
  /\ sPc = "idle"

\* main is entered with some suite configuration
SuiteInit ==
  /\ sSuite \in [setup : SetupOutcomes, mock : BOOLEAN, ctx : CtxKinds]
  /\ sCase = 1
  /\ sCombo = 1
  /\ sHeap = InitialHeap(sSuite)
  /\ sShared = "none"
  /\ sCreated = EmptyDict
  /\ sTrCalls = 0
  /\ sRec = CreateRunDataStruct
  /\ sRun = 0
  /\ sCalls = [k \in 1..4 |-> 0]
  /\ sLast = NoRun
  /\ sLogged = <<>>
  /\ sErrors = 0
  /\ sReturn = NoReturn
  /\ sExit = -1
  /\ sPc = "cli"

\* main up to the call of run_test_suite: RunnerCore is constructed, or its
\* constructor raises and main returns 1
CliStart ==
  /\ sPc = "cli"
  /\ \E init \in CallOutcome :
       IF init = "raises"
       THEN sExit' = 1 /\ sPc' = "exited"
       ELSE sExit' = sExit /\ sPc' = "start"
  /\ UNCHANGED <<sSuite, sCase, sCombo, sHeap, sShared, sCreated, sTrCalls, sRec,
                 sRun, sCalls, sLast, sLogged, sErrors, sReturn>>
  /\ UNCHANGED notSuiteVars

\* run_test_suite up to its test case loop
StartSuite ==
  /\ sPc = "start"
  /\ IF sSuite.setup # "ok"
     THEN sReturn' = LogAndReturnError(sSuite.setup) /\ sPc' = "returned"
     ELSE sReturn' = sReturn /\ sPc' = "case"
  /\ UNCHANGED <<sSuite, sCase, sCombo, sHeap, sShared, sCreated, sTrCalls, sRec,
                 sRun, sCalls, sLast, sLogged, sErrors, sExit>>
  /\ UNCHANGED notSuiteVars

\* the head of the test case loop: the shared teacher request is generated
\* and stored, or the test case is skipped
GenerateTeacherRequest ==
  /\ sPc = "case"
  /\ \E llm \in TeacherLlm :
       LET heap == InitialHeap(sSuite)
           t == StepTeacherRequest(heap, sSuite, llm, "tr")
           nxt == AfterTestCase(sCase)
       IN /\ sHeap' = t.heap
          /\ sTrCalls' = 1
          /\ IF t.error
             THEN /\ sShared' = "none"
                  /\ sCreated' = EmptyDict
                  /\ sPc' = nxt.pc
                  /\ sCase' = nxt.case
             ELSE /\ sShared' = t.ref
                  /\ sCreated' = t.heap[t.ref]
                  /\ sPc' = "combo"
                  /\ sCase' = sCase
  /\ sCombo' = 1
  /\ sRec' = CreateRunDataStruct
  /\ sRun' = 0
  /\ sCalls' = [k \in 1..4 |-> 0]
  /\ sLast' = NoRun
  /\ UNCHANGED <<sSuite, sLogged, sErrors, sReturn, sExit>>
  /\ UNCHANGED notSuiteVars

\* the head of the combination loop: the edge model is initialised and
\* run_data created, with the initialisation error if there was one
StartCombination ==
  /\ sPc = "combo"
  /\ \E init \in CallOutcome :
       IF init = "raises"
       THEN /\ sRec' = [CreateRunDataStruct EXCEPT !.error = TRUE]
            /\ sPc' = "log"
       ELSE /\ sRec' = CreateRunDataStruct
            /\ sPc' = "run"
  /\ sRun' = 0
  /\ sCalls' = [k \in 1..4 |-> 0]
  /\ sLast' = NoRun
  /\ UNCHANGED <<sSuite, sCase, sCombo, sHeap, sShared, sCreated, sTrCalls,
                 sLogged, sErrors, sReturn, sExit>>
  /\ UNCHANGED notSuiteVars

\* what a call of a run function does to run_data: the metrics aggregation
\* returns and the result is stored, or it raises and run_test_suite's handler
\* sets the record's error
AfterRun(k, res, merge) ==
  /\ sLast' = res
  /\ sRun' = k
  /\ sCalls' = [sCalls EXCEPT ![k] = @ + 1]
  /\ IF merge = "raises"
     THEN sRec' = [sRec EXCEPT !.error = TRUE] /\ sPc' = "log"
     ELSE /\ sRec' = [sRec EXCEPT !.runs[k] = res.status]
          /\ sPc' = IF k = 4 THEN "log" ELSE "run"

\* run_data["run_1"] = self._run_cloud_baseline(...)
Run1 ==
  /\ sPc = "run" /\ sRun = 0
  /\ \E q \in LlmStep, a \in LlmStep, merge \in CollectorCall :
       AfterRun(1, RunCloudBaseline(sHeap, sShared, q, a), merge)
  /\ UNCHANGED <<sSuite, sCase, sCombo, sHeap, sShared, sCreated, sTrCalls,
                 sLogged, sErrors, sReturn, sExit>>
  /\ UNCHANGED notSuiteVars

\* run_data["run_2"] = self._run_cloud_edgeprompt(...)
Run2 ==
  /\ sPc = "run" /\ sRun = 1
  /\ \E llm \in (IF NeedsOwnRequest(sHeap, sShared) THEN TeacherLlm ELSE {"error"}),
        q \in LlmStep, a \in LlmStep, v \in ValidationOutcomes,
        c \in ConstraintOutcomes, r \in ReviewOutcomes, merge \in CollectorCall :
       LET out == RunCloudEdgeprompt(sHeap, sShared, sSuite, llm, q, a, v, c, r)
       IN /\ AfterRun(2, out.res, merge)
          /\ sHeap' = out.heap
          /\ sTrCalls' = IF out.called THEN sTrCalls + 1 ELSE sTrCalls
  /\ UNCHANGED <<sSuite, sCase, sCombo, sShared, sCreated, sLogged, sErrors,
                 sReturn, sExit>>
  /\ UNCHANGED notSuiteVars

\* run_data["run_3"] = self._run_edge_baseline(...)
Run3 ==
  /\ sPc = "run" /\ sRun = 2
  /\ \E q \in LlmStep, a \in LlmStep, merge \in CollectorCall :
       AfterRun(3, RunEdgeBaseline(sHeap, sShared, q, a), merge)
  /\ UNCHANGED <<sSuite, sCase, sCombo, sHeap, sShared, sCreated, sTrCalls,
                 sLogged, sErrors, sReturn, sExit>>
  /\ UNCHANGED notSuiteVars

\* run_data["run_4"] = self._run_edge_edgeprompt(...)
Run4 ==
  /\ sPc = "run" /\ sRun = 3
  /\ \E q \in LlmStep, a \in LlmStep, v \in ValidationOutcomes,
        c \in ConstraintOutcomes, merge \in CollectorCall :
       LET out == RunEdgeEdgeprompt(sHeap, sShared, q, a, v, c)
       IN /\ AfterRun(4, out.res, merge)
          /\ sHeap' = out.heap
  /\ UNCHANGED <<sSuite, sCase, sCombo, sShared, sCreated, sTrCalls, sLogged,
                 sErrors, sReturn, sExit>>
  /\ UNCHANGED notSuiteVars

\* run_data is appended and logged (after a failed initialisation, and in the
\* finally clause), the loops go on, and run_data is dropped
LogRecord ==
  /\ sPc = "log"
  /\ LET nxt == AfterCombination(sCase, sCombo)
     IN /\ sPc' = nxt.pc
        /\ sCase' = nxt.case
        /\ sCombo' = nxt.combo
  /\ sLogged' = Append(sLogged, <<sCase, sCombo>>)
  /\ sErrors' = sErrors + RecordErrors(sRec)
  /\ sRec' = CreateRunDataStruct
  /\ sRun' = 0
  /\ sCalls' = [k \in 1..4 |-> 0]
  /\ sLast' = NoRun
  /\ UNCHANGED <<sSuite, sHeap, sShared, sCreated, sTrCalls, sReturn, sExit>>
  /\ UNCHANGED notSuiteVars

\* run_test_suite after its loops: the summary is built and returned
FinishSuite ==
  /\ sPc = "finish"
  /\ sReturn' = CreateAnalysisSummary(sLogged, sErrors)
  /\ sPc' = "returned"
  /\ UNCHANGED <<sSuite, sCase, sCombo, sHeap, sShared, sCreated, sTrCalls, sRec,
                 sRun, sCalls, sLast, sLogged, sErrors, sExit>>
  /\ UNCHANGED notSuiteVars

\* main after run_test_suite returned: the results file is written and the
\* exit code chosen, or writing raises and main returns 1
CliFinish ==
  /\ sPc = "returned"
  /\ \E dump \in CallOutcome :
       sExit' = IF dump = "raises" THEN 1 ELSE ExitCode(sReturn)
  /\ sPc' = "exited"
  /\ UNCHANGED <<sSuite, sCase, sCombo, sHeap, sShared, sCreated, sTrCalls, sRec,
                 sRun, sCalls, sLast, sLogged, sErrors, sReturn>>
  /\ UNCHANGED notSuiteVars

----------------------------------------------------------------------------
(* RunnerCore._create_analysis_summary *)

\* the records run_test_suite appends: the run functions called returned
\* completed or failed; when the model did not initialise or a run function
\* raised, the record has an error and the runs from there on are pending;
\* the topic check after run 4 can set the error as well
LoggedRecords ==
  {r \in [runs : [1..4 -> {"pending", "completed", "failed"}], error : BOOLEAN] :
     /\ \A k \in 1..3 : r.runs[k] = "pending" => r.runs[k + 1] = "pending"
     /\ r.runs[4] = "pending" => r.error}

\* test_suite_results at the end of run_test_suite
RECURSIVE ResultLists(_)
ResultLists(n) ==
  IF n = 0 THEN {<<>>}
  ELSE LET shorter == ResultLists(n - 1)
       IN  shorter \cup {Append(l, r) : l \in {x \in shorter : Len(x) = n - 1},
                                          r \in LoggedRecords}

\* how many of the records have the given status for run k, counted as the
\* loop does: "completed", else "failed" (or an error in the run), else pending
RECURSIVE CountStatus(_, _, _, _)
CountStatus(results, n, k, status) ==
  IF n = 0 THEN 0
  ELSE CountStatus(results, n - 1, k, status)
         + (IF results[n].runs[k] = status THEN 1 ELSE 0)

\* errors: one per record with a top-level error, one per failed run
RECURSIVE CountErrors(_, _)
CountErrors(results, n) ==
  IF n = 0 THEN 0 ELSE CountErrors(results, n - 1) + RecordErrors(results[n])

\* _create_analysis_summary(suite_id, run_count, results)
AnalysisSummary(run_count, results) ==
  [total_runs_attempted |-> run_count,
   total_runs_logged |-> Len(results),
   runs_with_errors |-> CountErrors(results, Len(results)),
   runs_by_status |->
     [k \in 1..4 |->
        [st \in {"completed", "failed", "pending"} |->
           CountStatus(results, Len(results), k, st)]]]

NoSummary == AnalysisSummary(0, <<>>)

SummaryIdle ==
  /\ aResults = <<>>
  /\ aSummary = NoSummary
  /\ aPc = "idle"

\* run_test_suite has left its loops with the records it logged
SummaryInit ==
  /\ aResults \in ResultLists(MaxRecords)
  /\ aSummary = NoSummary
  /\ aPc = "call"

\* self._create_analysis_summary(suite_id, run_counter, test_suite_results):
\* run_counter was incremented once for each record appended
CreateSummary ==
  /\ aPc = "call"
  /\ aSummary' = AnalysisSummary(Len(aResults), aResults)
  /\ aPc' = "returned"
  /\ UNCHANGED aResults
  /\ UNCHANGED notSummaryVars

----------------------------------------------------------------------------
(* The specifications: one call of validate_with_sequence (Spec), of
   json_utils.repair_json_with_llm (SpecRepair), of the model manager (SpecExec),
   one call of validate_with_sequence with weighted stages (SpecScore),
   one call of the JSON layer (SpecJson),
   and one run of the program over a test suite (SpecSuite) *)

Init == ValidateInit /\ RepairIdle /\ ExecIdle /\ SuiteIdle /\ JsonIdle /\ CacheIdle /\ MockIdle /\ TemplateIdle /\ ExtractIdle /\ TimerIdle /\ SummaryIdle

Next == LoadSequence \/ RunStage

Spec == Init /\ [][Next]_vars

RepairSpecInit == RepairInit /\ ValidateIdle /\ ExecIdle /\ SuiteIdle /\ JsonIdle /\ CacheIdle /\ MockIdle /\ TemplateIdle /\ ExtractIdle /\ TimerIdle /\ SummaryIdle

SpecRepair == RepairSpecInit /\ [][RepairNext]_vars

ExecSpecInit == ExecInit /\ RepairIdle /\ ValidateIdle /\ SuiteIdle /\ JsonIdle /\ CacheIdle /\ MockIdle /\ TemplateIdle /\ ExtractIdle /\ TimerIdle /\ SummaryIdle

ExecNext == ExecuteCloudLlm \/ ExecuteEdgeLlm \/ RepairCallReturns

SpecExec == ExecSpecInit /\ [][ExecNext]_vars

ScoreSpecInit == ScoreInit /\ RepairIdle /\ ExecIdle /\ SuiteIdle /\ JsonIdle /\ CacheIdle /\ MockIdle /\ TemplateIdle /\ ExtractIdle /\ TimerIdle /\ SummaryIdle

SpecScore == ScoreSpecInit /\ [][Next]_vars

JsonSpecInit == JsonInit /\ RepairIdle /\ ValidateIdle /\ ExecIdle /\ SuiteIdle /\ CacheIdle /\ MockIdle /\ TemplateIdle /\ ExtractIdle /\ TimerIdle /\ SummaryIdle

SpecJson == JsonSpecInit /\ [][JsonNext]_vars

CacheSpecInit == CacheInit /\ RepairIdle /\ ValidateIdle /\ ExecIdle /\ SuiteIdle /\ JsonIdle /\ MockIdle /\ TemplateIdle /\ ExtractIdle /\ TimerIdle /\ SummaryIdle

SpecCache == CacheSpecInit /\ [][CacheNext]_vars

MockSpecInit == MockInit /\ RepairIdle /\ ValidateIdle /\ ExecIdle /\ SuiteIdle /\ JsonIdle /\ CacheIdle /\ TemplateIdle /\ ExtractIdle /\ TimerIdle /\ SummaryIdle

SpecMock == MockSpecInit /\ [][MockGenerate]_vars

TemplateSpecInit == TemplateInit /\ RepairIdle /\ ValidateIdle /\ ExecIdle /\ SuiteIdle /\ JsonIdle /\ CacheIdle /\ MockIdle /\ ExtractIdle /\ TimerIdle /\ SummaryIdle

SpecTemplate == TemplateSpecInit /\ [][ProcessTemplateCall]_vars

ExtractSpecInit == ExtractInit /\ RepairIdle /\ ValidateIdle /\ ExecIdle /\ SuiteIdle /\ JsonIdle /\ CacheIdle /\ MockIdle /\ TemplateIdle /\ TimerIdle /\ SummaryIdle

SpecExtract == ExtractSpecInit /\ [][ExtractNext]_vars

TimerSpecInit == TimerInit /\ RepairIdle /\ ValidateIdle /\ ExecIdle /\ SuiteIdle /\ JsonIdle /\ CacheIdle /\ MockIdle /\ TemplateIdle /\ ExtractIdle /\ SummaryIdle

SpecTimer == TimerSpecInit /\ [][TimerNext]_vars

SummarySpecInit == SummaryInit /\ RepairIdle /\ ValidateIdle /\ ExecIdle /\ SuiteIdle /\ JsonIdle /\ CacheIdle /\ MockIdle /\ TemplateIdle /\ ExtractIdle /\ TimerIdle

SpecSummary == SummarySpecInit /\ [][CreateSummary]_vars

SuiteSpecInit == SuiteInit /\ RepairIdle /\ ValidateIdle /\ ExecIdle /\ JsonIdle /\ CacheIdle /\ MockIdle /\ TemplateIdle /\ ExtractIdle /\ TimerIdle /\ SummaryIdle

SuiteNext ==
  \/ CliStart \/ StartSuite \/ GenerateTeacherRequest \/ StartCombination
  \/ Run1 \/ Run2 \/ Run3 \/ Run4 \/ LogRecord \/ FinishSuite \/ CliFinish

SpecSuite == SuiteSpecInit /\ [][SuiteNext]_vars

----------------------------------------------------------------------------
(* The properties *)

\* the stage at position k of the execution order reported passed=false
StageFailedAt(k) == k \in 1..Len(vLog) /\ vLog[k].verdict = "failed"

\* the stage with this id has an entry in stageResults
HasEntry(id) == \E i \in 1..Len(vResults) : vResults[i].stageId = id

\* C1: when the stage at position k of the execution order reports
\* passed=false and the sequence aborts on failure, no stage after position k
\* is processed (so the executor is not called for it), stageResults has
\* exactly k entries and isValid is false.
C1_AbortLeavesKEntries ==
  vPc = "done" =>
    \A k \in 1..Len(vSorted) :
      (StageFailedAt(k) /\ vConfig.abortOnFailure) =>
        /\ Len(vLog) = k
        /\ Len(vResults) = k
        /\ ~vIsValid

\* a sequence aborted at its second stage whose first stage left no entry
C1_Witness ==
  /\ vPc = "done"
  /\ StageFailedAt(2)
  /\ vConfig.abortOnFailure
  /\ Len(vSorted) = 2
  /\ Len(vResults) = 1

\* C2: a failing stage whose own abortOnFailure flag is true stops the
\* processing of all further stages, whatever the sequence-level flag.
C2_StageFlagStops ==
  \A k \in 1..Len(vSorted) :
    (StageFailedAt(k) /\ vSorted[k].abortOnFailure) => Len(vLog) = k

\* a stage processed after a failed stage that had its own flag set
C2_Witness ==
  /\ StageFailedAt(1)
  /\ vSorted[1].abortOnFailure
  /\ ~vConfig.abortOnFailure
  /\ Len(vLog) = 2
  /\ vLog[2].called

\* C3: when validate_with_sequence returns for a loaded sequence, every stage
\* has an entry in stageResults or comes after the stage at which the
\* sequence was aborted.
C3_EveryStageRecorded ==
  vPc = "done" =>
    \A i \in 1..Len(vSorted) :
      HasEntry(vSorted[i].id) \/ (vAbortAt # 0 /\ i > vAbortAt)

\* a sequence that ran to its end and left a stage without an entry
C3_Witness ==
  /\ vPc = "done"
  /\ vAbortAt = 0
  /\ \E i \in 1..Len(vSorted) : ~HasEntry(vSorted[i].id)

\* C4: whichever executor drives the sequence, a stage the backend answered
\* is recorded as the edge executor would have it recorded for the same
\* answer; a stage answered with JSON saying passed=true is recorded passed.
C4_VerdictIndependentOfBackend ==
  \A k \in 1..Len(vLog) :
    vLog[k].called =>
      vLog[k].verdict =
        StagePass(vConfig, "edge", k, vSorted[k], vLog[k].backend).verdict

\* a cloud stage answered with JSON saying passed=true and recorded failed
C4_Witness ==
  /\ vExec = "cloud"
  /\ \E k \in 1..Len(vLog) :
       /\ vLog[k].backend = [kind |-> "text",
                             text |-> DirectJson(Dict(PassedBool(TRUE), ScoreNum(100),
                                                     FbStr("ok")))]
       /\ \E i \in 1..Len(vResults) :
            vResults[i].pos = k /\ ~vResults[i].passed /\ vResults[i].technical

\* C5: one call of execute_edge_llm issues at most 1 + max_attempts = 2
\* backend requests, whatever the backend answers.
C5_AtMostTwoRequests == xEntry = "edge" => Len(xLog) <= 1 + 1

\* a third backend request of one execute_edge_llm call
C5_Witness ==
  /\ xEntry = "edge"
  /\ Len(xLog) = 3
  /\ \A i \in 1..2 : xLog[i].kind = "text" /\ ~Extracted(xLog[i].text)

\* no text seen in this call could be extracted
NothingExtracted ==
  /\ ~Extracted(rText)
  /\ \A i \in 1..Len(rCalls) : ~Extracted(rCalls[i])

\* C6: repair_json_with_llm calls the repair function at most max_attempts
\* times, never with the attempts used up, and when it returns without any
\* text having been extracted the result is exactly the required keys mapped
\* to their defaults.
C6_BoundedRepairThenDefaults ==
  /\ Len(rCalls) <= rMax
  /\ rAttempt = Len(rCalls)
  /\ (rPc = "done" /\ NothingExtracted) => rResult = DefaultsObj(DefaultValues)
  /\ (rPc = "raised") => ~NothingExtracted

C6_Witness ==
  /\ rPc = "done"
  /\ rMax >= 2
  /\ Len(rCalls) = rMax
  /\ NothingExtracted
  /\ rResult = DefaultsObj(DefaultValues)

\* C7 as claimed: with max_attempts >= 2, after a round whose reply equals the
\* text originally passed in, the repair function is not called again and the
\* loop does not go on.
C7_StopsOnOriginalText ==
  \A i \in 1..Len(rCalls) :
    (rMax >= 2 /\ rCalls[i] = rText) =>
      /\ i = Len(rCalls)
      /\ (rPc = "loop" => ~LoopContinues(rAttempt, rMax))

\* C7 amended: after a round whose reply equals the text that round's prompt
\* was built from (the original text in round 1, the previous reply later),
\* the repair function is not called again and the loop does not go on.
C7_StopsOnUnchangedText ==
  \A i \in 1..Len(rCalls) :
    (rCalls[i] = rSent[i]) =>
      /\ i = Len(rCalls)
      /\ rPc = "done"
      /\ rResult = DefaultsObj(DefaultValues)

C7_Witness ==
  /\ rMax >= 3
  /\ Len(rCalls) = 2
  /\ rCalls[2] = rSent[2]
  /\ rCalls[2] # rText
  /\ rPc = "done"

C9_NeverRaises ==
  /\ xPc # "raised"
  /\ (xPc = "returned" /\ xLog # <<>> /\ xLog[1].kind = "raise") =>
       (xResult.error # "absent" /\ xResult.output = NoneText)

\* the provider call raised and the exception left execute_cloud_llm
C9_Witness ==
  /\ xPc = "raised"
  /\ xEntry = "cloud"
  /\ Len(xLog) = 1
  /\ xLog[1].kind = "raise"

\* C10: every result returned by execute_cloud_llm or execute_edge_llm, to
\* the outside or to the repair call of a frame of execute_edge_llm, that has
\* no "error" has a text that is not None.
C10_NoErrorMeansOutput ==
  /\ xPc = "returned" => (xResult.error = "absent" => xResult.output.form # "none")
  /\ xPc = "ret" => (xRet.error = "absent" => xRet.output.form # "none")

\* results returned by real calls: one without an error whose provider
\* answered, one whose provider gave no text
C10_Witness ==
  /\ xPc = "returned"
  /\ xModel = "real"
  /\ xLog # <<>>
  /\ xLog[Len(xLog)].kind = "text"
  /\ \/ xResult.error = "absent" /\ xResult.repaired
     \/ xResult.error # "absent" /\ xLog[Len(xLog)].text = NoneText

\* the record of the current combination is complete and about to be
\* appended and logged
RecordComplete == sPc = "log"

\* the elements of a sequence
Range(seq) == {seq[n] : n \in 1..Len(seq)}

\* C11: in a combination whose edge model initialised, an exception in any
\* step of a run, its metrics aggregation included, makes that run failed,
\* and the remaining runs are still executed: the record that is logged has
\* had all four runs called and each of them is completed or failed.
C11_RunExceptionIsolated ==
  (RecordComplete /\ sRun >= 1) =>
    /\ sRun = 4
    /\ \A k \in 1..4 : sRec.runs[k] \in {"completed", "failed"}

\* the metrics aggregation of run 1 raised after its steps had completed: the
\* record carries the error, run_1 is still pending and runs 2 to 4 never ran
C11_Witness ==
  /\ RecordComplete
  /\ sRun = 1
  /\ sLast.run = 1
  /\ sLast.status = "completed"
  /\ sRec.error
  /\ \A k \in 1..4 : sRec.runs[k] = "pending"

\* C12: a run of a record that was executed has changed its status from
\* pending to completed or failed.
C12_ExecutedRunHasFinalStatus ==
  \A k \in 1..4 : sCalls[k] >= 1 => sRec.runs[k] \in {"completed", "failed"}

\* run 2 was executed once and failed in its steps, its metrics aggregation
\* raised, and its entry in the record to be logged is still pending
C12_Witness ==
  /\ RecordComplete
  /\ sCalls[2] = 1
  /\ sLast.run = 2
  /\ sLast.status = "failed"
  /\ sRec.runs[1] = "completed"
  /\ sRec.runs[2] = "pending"

\* C13: when run_test_suite has gone through its loops, every test case and
\* every combination has exactly one record appended and logged.
C13_OneRecordPerCombination ==
  (sPc = "finish") =>
    \A i \in 1..MaxCases, j \in 1..MaxCombos :
      Cardinality({n \in 1..Len(sLogged) : sLogged[n] = <<i, j>>}) = 1

\* the loops are over and the first test case, whose teacher request failed,
\* has no record at all
C13_Witness ==
  /\ sPc = "finish"
  /\ \A n \in 1..Len(sLogged) : sLogged[n][1] # 1
  /\ Len(sLogged) = MaxCombos

\* C14: while a test case has a shared teacher request, _step_teacher_request
\* was called once for it, and every run that was called read the shared
\* object, none generated or built a request of its own.
C14_OneSharedRequest ==
  (sShared # "none") =>
    /\ sTrCalls = 1
    /\ sLast.run # 0 => sLast.request = "shared"

\* a real-mode test case at its last combination: run 4 was called, read the
\* shared request, and the request was generated once
C14_Witness ==
  /\ RecordComplete
  /\ ~sSuite.mock
  /\ sCombo = MaxCombos
  /\ sShared = "tr"
  /\ sLast.run = 4
  /\ sLast.status = "completed"
  /\ sLast.request = "shared"
  /\ sTrCalls = 1

\* C15: the content of the shared teacher request is at every moment what it
\* was when it was stored.
C15_SharedRequestUnchanged ==
  (sShared # "none") => sHeap[sShared] = sCreated

\* real mode, all four runs called: _step_teacher_request has added its keys to
\* teacher_request_context, and the shared request is as it was created
C15_Witness ==
  /\ RecordComplete
  /\ ~sSuite.mock
  /\ sRun = 4
  /\ sLast.status = "completed"
  /\ sHeap.ctx.keys = RealModeKeys
  /\ sShared = "tr"
  /\ sHeap.tr = sCreated
  /\ sCreated.topic = OtherTopic

\* C16: the topic of the question prompt of the baseline edge run and of the
\* question template of the EdgePrompt edge run is the topic of the shared
\* teacher request.
C16_EdgeRunsUseRequestTopic ==
  (sShared # "none" /\ sLast.run \in {3, 4} /\ sLast.topic # "none") =>
    sLast.topic = sHeap[sShared].topic

\* the EdgePrompt edge run put the test case's topic into the template while
\* the shared teacher request has another one
C16_Witness ==
  /\ sLast.run = 4
  /\ sShared = "tr"
  /\ sHeap.tr.topic = OtherTopic
  /\ sLast.topic = CaseTopic
  /\ sLast.request = "shared"

\* the EdgePrompt run that ran last got as far as its validation step
ValidationDone(k) == sLast.run = k /\ sLast.valid # "none"

C18_EdgeRunSameSteps ==
  (sLast.run = 4 /\ sLast.status = "completed") =>
    /\ sLast.steps = Append(EdgePromptSteps, "teacher_review")
    /\ sLast.review \in {"called", "no_call"} <=>
         ReviewNeeded(sLast.valid = "valid", sLast.passed = "passed")

\* the EdgePrompt/edge run completed with an invalid validation result and
\* no review step
C18_Witness ==
  /\ sLast.run = 4
  /\ sLast.status = "completed"
  /\ sLast.valid = "invalid"
  /\ sLast.review = "none"
  /\ "teacher_review" \notin Range(sLast.steps)

\* C19: when run_test_suite returned an early error, or a summary of records
\* with a failed run or a record-level error, main exits with code 1.
C19_ErrorsExitOne ==
  (sPc = "exited" /\ ("error" \in DOMAIN sReturn \/ sErrors > 0)) => sExit = 1

\* main exited with code 0 although the summary counts errors
C19_Witness ==
  /\ sPc = "exited"
  /\ sExit = 0
  /\ sErrors > 0
  /\ sReturn.runs_with_errors = sErrors

\* C20: when the sequence cannot be loaded or has no stages,
\* validate_with_sequence raises; it does not return a result.
C20_LoadFailureRaises ==
  (vPc # "load" /\ (~vConfig.loaded \/ vConfig.stages = <<>>)) => vPc = "raised"

\* an error result returned for a sequence that did not load
C20_Witness ==
  /\ vPc = "error"
  /\ ~vConfig.loaded
  /\ ~vIsValid
  /\ vResults = <<>>

\* the sequence did not load, or the template of a stage did not load or render
ConfigErrorSeen ==
  \/ ~vConfig.loaded
  \/ \E k \in 1..Len(vLog) : vLog[k].verdict = "template"

\* the status of the EdgePrompt/large run whose validation step made this
\* call of validate_with_sequence, for constraint outcome c and review outcome r
RunStatusAfterValidation(c, r) ==
  LET suite == [setup |-> "ok", mock |-> FALSE, ctx |-> "missing"]
      heap == [InitialHeap(suite) EXCEPT !.tr = [topic |-> CaseTopic, keys |-> {}]]
  IN  RunCloudEdgeprompt(heap, "tr", suite, "error", "text", "text",
                         StepMultistageValidation(vPc, vIsValid), c, r).res.status

\* C21: when validate_with_sequence has ended after a configuration error (the
\* sequence missing, or a stage's template missing), the enclosing EdgePrompt
\* run ends with status failed, never completed.
C21_ConfigErrorFailsRun ==
  (vPc \in {"done", "error", "raised"} /\ ConfigErrorSeen) =>
    \A c \in ConstraintOutcomes, r \in ReviewOutcomes :
      RunStatusAfterValidation(c, r) = "failed"

\* a stage's template did not load, validation returned a result, and the
\* run that asked for it completes
C21_Witness ==
  /\ vPc = "done"
  /\ \E k \in 1..Len(vLog) :
       /\ vLog[k].verdict = "template"
       /\ vSorted[k].template_id = "absent_template"
  /\ ~vIsValid
  /\ RunStatusAfterValidation("passed", "called") = "completed"

\* a parsed object without one of the required fields
MissingField(obj) ==
  /\ obj.shape = "dict"
  /\ \/ obj.passed.ty = "missing"
     \/ obj.score.ty = "missing"
     \/ obj.feedback.ty = "missing"

\* the pass at position k got a text from the backend whose object lacks a
\* required field
MissingFieldAt(k) ==
  /\ k \in 1..Len(vLog)
  /\ vLog[k].called
  /\ vLog[k].backend.kind = "text"
  /\ vExec = "edge"
  /\ MissingField(ExtractJsonFromText(vLog[k].backend.text).obj)

\* C22: a stage whose parsed output lacks a required field is not recorded as
\* a failed stage from the default-filled fields of its one and only reply.
C22_MissingFieldNotContentFailure ==
  \A k \in 1..Len(vLog) : MissingFieldAt(k) => vLog[k].verdict # "failed"

\* the reply had no "passed"; the stage is recorded with passed false and the
\* reply's own score, not as a technical error
C22_Witness ==
  \E k \in 1..Len(vLog) :
    /\ MissingFieldAt(k)
    /\ vLog[k].verdict = "failed"
    /\ \E n \in 1..Len(vResults) :
         /\ vResults[n].pos = k
         /\ ~vResults[n].technical
         /\ ~vResults[n].passed
         /\ vResults[n].score = 90

\* the summed weight of the stages whose model call was made
RECURSIVE ExecutedWeight(_)
ExecutedWeight(k) ==
  IF k = 0 THEN 0
  ELSE ExecutedWeight(k - 1) + (IF vLog[k].called THEN vSorted[k].weight ELSE 0)

\* C23: the returned finalScore is the accumulated score divided by the summed
\* weight of the stages that were executed.
C23_DivisorIsExecutedWeight ==
  (vPc = "done" /\ ExecutedWeight(Len(vLog)) > 0) =>
    vFinal.den = ExecutedWeight(Len(vLog))

\* the first of two stages failed and the loop broke; the divisor holds the
\* weight of the second stage, which never ran
C23_Witness ==
  /\ vPc = "done"
  /\ vAbortAt = 1
  /\ Len(vLog) = 1
  /\ Len(vSorted) = 2
  /\ vSorted[2].weight > 0
  /\ vFinal.den = vSorted[1].weight + vSorted[2].weight

\* the sequence loaded, has stages, and all their weights are 0
AllWeightsZero ==
  /\ vConfig.loaded
  /\ vConfig.stages # <<>>
  /\ \A i \in 1..Len(vConfig.stages) : vConfig.stages[i].weight = 0

\* C24: with all weights 0 the final score is 0 and nothing is divided by 0.
C24_ZeroWeightsGiveZero ==
  AllWeightsZero => (vFinal.num = 0 /\ vFinal.den # 0 /\ vScore = 0)

\* two stages of weight 0, the second one passed, the result is returned
C24_Witness ==
  /\ AllWeightsZero
  /\ vPc = "done"
  /\ Len(vLog) = 2
  /\ vLog[2].verdict = "passed"
  /\ vFinal = [num |-> 0, den |-> 1]

\* C25: a returned result whose normalised score is below the sequence's
\* passing_threshold has isValid false.
C25_BelowThresholdIsInvalid ==
  (vPc = "done" /\ vFinal.num < vConfig.passing_threshold * vFinal.den) => ~vIsValid

\* every stage that ran passed, the normalised score is below the threshold,
\* and the result is invalid
C25_Witness ==
  /\ vPc = "done"
  /\ \E k \in 1..Len(vLog) : vLog[k].verdict = "passed"
  /\ \A k \in 1..Len(vLog) : vLog[k].verdict \in {"passed", "skipped"}
  /\ vFinal.num > 0
  /\ vFinal.num < vConfig.passing_threshold * vFinal.den
  /\ ~vIsValid

\* C26: the stages are gone through in the order of priority descending, those
\* of equal priority in the order of the configured list, each stage once.
C26_PriorityOrderStable ==
  (vPc \in {"run", "done", "raised"}) =>
    /\ Len(vSorted) = Len(vConfig.stages)
    /\ \A i \in 1..Len(vConfig.stages) :
         \E k \in 1..Len(vSorted) : vSorted[k] = WithId(vConfig.stages, i)
    /\ \A k \in 1..Len(vSorted), m \in 1..Len(vSorted) :
         k < m =>
           \/ vSorted[k].priority > vSorted[m].priority
           \/ vSorted[k].priority = vSorted[m].priority /\ vSorted[k].id < vSorted[m].id
    /\ \A k \in 1..Len(vLog) : vLog[k].pos = k

\* both stages ran, the second of the configured list first because of its
\* higher priority
C26_Witness ==
  /\ vPc = "done"
  /\ Len(vLog) = 2
  /\ vSorted[1].id = 2
  /\ vSorted[1].priority = 1
  /\ vSorted[2].id = 1
  /\ vSorted[2].priority = 0
  /\ vLog[1].called
  /\ vLog[2].called

\* score x weight summed over the first n stageResults entries that passed
RECURSIVE PassedSum(_)
PassedSum(n) ==
  IF n = 0 THEN 0
  ELSE PassedSum(n - 1)
       + (IF vResults[n].passed
          THEN vResults[n].score * vSorted[vResults[n].pos].weight ELSE 0)

\* C27: before normalisation finalScore is the sum of score x weight over the
\* stages recorded as passed, it is never negative, and no pass of the loop
\* makes it smaller.
C27_ScoreIsSumOverPassed ==
  /\ [](vScore = PassedSum(Len(vResults)) /\ vScore >= 0)
  /\ [][vScore' >= vScore]_vars

\* the first stage failed with score 0.3, the loop went on, the second stage
\* of weight 2 passed with score 1.0: the accumulated score is 2.0
C27_Witness ==
  /\ vPc = "done"
  /\ Len(vResults) = 2
  /\ ~vResults[1].passed
  /\ vResults[1].score = 30
  /\ vSorted[1].weight = 1
  /\ vResults[2].passed
  /\ vResults[2].score = 100
  /\ vSorted[2].weight = 2
  /\ vScore = 200

\* validate_and_fix_json_structure returned for a dict
FixReturned ==
  /\ jPc = "returned"
  /\ jFn = "validate_and_fix_json_structure"
  /\ jObj.shape = "dict"

\* C28: the object validate_and_fix_json_structure returns for a numeric
\* score has its score in [0,1].
C28_NumericScoreInUnitRange ==
  (FixReturned /\ jObj.score.ty = "num") => (jOut.score.n >= 0 /\ jOut.score.n <= 100)

\* the numeric score 8 came back as 8
C28_Witness ==
  /\ FixReturned
  /\ jObj.score = ScoreNum(800)
  /\ jOut.score = ScoreNum(800)

\* C29: a score given as a number or as a numeric string comes back divided
\* by 10 if it is in (1,10], and clamped into [0,1] otherwise.
C29_ScoreScaledOrClamped ==
  (FixReturned /\ jObj.score.ty \in {"num", "str"}) =>
    LET x == jObj.score.n
    IN  jOut.score.n = IF x > 100 /\ x <= 1000 THEN x \div 10
                       ELSE IF x < 0 THEN 0
                       ELSE IF x > 100 THEN 100
                       ELSE x

\* the string "8" came back as 0.8 (and the number 8 does not, see C28_Witness)
C29_Witness ==
  /\ FixReturned
  /\ jObj.score = ScoreStr(800)
  /\ jOut.score = ScoreNum(80)

\* C30: neither function of the JSON layer raises.
C30_JsonLayerNeverRaises == jPc # "raised"

\* parse_llm_json_output raised on a reply whose score is "1/0"
C30_Witness ==
  /\ jPc = "raised"
  /\ jFn = "parse_llm_json_output"
  /\ jText = DirectJson(jObj)
  /\ jObj.score = ScoreFrac(1, 0)

\* C31: the cache holds at most one handle per key; when an initialization
\* with mock_mode = m returns, the handle returned and the cached entry of
\* its key have mock flag m; a cached handle is reused only if its flag is m.
C31_CacheMatchesMockFlag ==
  /\ \A h1, h2 \in mCache : h1.key = h2.key => h1 = h2
  /\ (mRet.op = "initialize" /\ mRet.st = "returned") =>
       /\ mRet.handle.mock = mRet.mock
       /\ Cached(mCache, mRet.key)
       /\ CachedHandle(mCache, mRet.key).mock = mRet.mock
  /\ (mRet.op = "initialize" /\ mRet.reused) =>
       mRet.before = (IF mRet.mock THEN "mock" ELSE "real")

\* a real handle was asked for while a mock one was cached, and the call
\* returned a new handle; another key is cached as well
C31_Witness ==
  /\ mRet.op = "initialize" /\ mRet.st = "returned"
  /\ mRet.before = "mock" /\ ~mRet.mock /\ ~mRet.reused
  /\ Cardinality(mCache) >= 2

C33_MockIsDeterministic == Len(gOut) >= 2 => gOut[1] = gOut[2]

\* the same edge mock model, asked twice for JSON with the same prompt,
\* answered once passed and once failed, with the same token counts
C33_Witness ==
  /\ Len(gOut) >= 2
  /\ gOut[1].generated_text.kind = "json" /\ gOut[2].generated_text.kind = "json"
  /\ gOut[1].generated_text.passed # gOut[2].generated_text.passed
  /\ gOut[1].output_tokens = gOut[2].output_tokens

\* the names of the pattern that the variables or the defaults provide
ProvidedNames ==
  {v \in FoundVarsInPattern(tPattern) : tVars[v] # Absent \/ tDefaults[v] # Absent}

\* C34: the returned prompt contains no [name] for a name that occurs in
\* the pattern and is present in the variables or the template defaults,
\* also when a substituted value contains [other] for another placeholder.
C34_NoPlaceholderLeft ==
  tPc = "returned" =>
    \A v \in ProvidedNames : \A i \in 1..Len(tPrompt) : tPrompt[i] # Placeholder(v)

\* the pattern is "[a] [b]", the value of a is the text "[b]", b has a
\* value without brackets, and the returned prompt still contains "[b]"
C34_Witness ==
  /\ tPc = "returned"
  /\ tPattern = <<Placeholder("a"), Placeholder("b")>>
  /\ tVars["a"] = <<Placeholder("b")>>
  /\ tVars["b"] = <<Word>>
  /\ tPrompt = <<Placeholder("b"), Word>>

\* the strategy of a method name, with or without the light repair
StrategyOf(method) ==
  CASE method \in {"markdown_code_block", "markdown_code_block_fixed"} -> "markdown_code_block"
    [] method \in {"json_object", "json_object_fixed"} -> "json_object"
    [] method \in {"key_value_pairs", "key_value_pairs_fixed"} -> "key_value_pairs"
    [] method \in {"inline_code", "inline_code_fixed"} -> "inline_code"
    [] OTHER -> method

\* C35: extract_json_from_text returns the result of the first strategy that
\* parses, in the order direct parse, fenced code block, first brace span,
\* key-value lines, with that strategy's method name; fenced JSON that does
\* not parse directly comes back with the markdown method and equals the
\* inner payload; when no strategy succeeds the result is
\* (null, "extraction_failed"), for any input text.
C35_CascadeOrderAndFailure ==
  ePc \in {"extracted", "again"} =>
    LET order == <<"markdown_code_block", "json_object", "key_value_pairs">>
        hits == {i \in 1..Len(order) : Found(eText, order[i]) # "no"}
        succeeds == DirectParses(eText) \/ hits # {}
    IN  /\ DirectParses(eText) => eOut.method = "direct_parse"
        /\ (~DirectParses(eText) /\ hits # {}) =>
             /\ StrategyOf(eOut.method) = order[CHOOSE i \in hits : \A j \in hits : i <= j]
             /\ eOut.obj = eText.obj
        /\ eText.form = "fenced" =>
             eOut = [obj |-> eText.obj, method |-> "markdown_code_block"]
        /\ ~succeeds => eOut = [obj |-> NoneObj, method |-> "extraction_failed"]

\* no strategy parses the empty text, and the method returned is "empty_input"
C35_Witness ==
  /\ ePc = "extracted"
  /\ eText = EmptyText
  /\ eOut = [obj |-> NoneObj, method |-> "empty_input"]

UnparsableStageOutput ==
  /\ vExec = "edge"
  /\ \E i \in 1..Len(vLog) :
       /\ vLog[i].called
       /\ vLog[i].backend.kind = "text"
       /\ vLog[i].backend.text.form \in {"garbage", "empty"}

\* C37: in the EdgePrompt/edge run, when a stage's model output cannot be
\* parsed as JSON, the validation is attempted again with the simplified
\* validation sequence before the validation step returns.
C37_UnparsableOutputRetried ==
  (vPc \in {"done", "raised"} /\ UnparsableStageOutput) =>
    \E k \in 1..Len(SequencesTried("basic_validation_sequence", EngineException(vPc))) :
      SequencesTried("basic_validation_sequence", EngineException(vPc))[k]
        = "simplified_validation_sequence"

\* the model returned an empty text, the stage was recorded as a technical
\* error, the engine returned its result and only the first sequence was run
C37_Witness ==
  /\ vPc = "done"
  /\ UnparsableStageOutput
  /\ \E i \in 1..Len(vLog) : vLog[i].backend.text = EmptyText /\ vLog[i].verdict = "exception"
  /\ SequencesTried("basic_validation_sequence", EngineException(vPc))
       = <<"basic_validation_sequence">>

\* every stage of the sequence was executed and passed
AllExecutedAndPassed ==
  /\ Len(vLog) = Len(vConfig.stages)
  /\ \A i \in 1..Len(vLog) : vLog[i].verdict = "passed"

\* C38: for a sequence that defines no passing_threshold the result has
\* isValid = true exactly when every stage was executed and passed; isValid
\* = true implies that every stageResults entry has passed = true; isValid
\* never goes from false back to true.
C38_ValidIffAllStagesPassed ==
  /\ [](/\ (vPc = "done" /\ vConfig.passing_threshold = DefaultThreshold) =>
              (vIsValid <=> AllExecutedAndPassed)
        /\ (vPc = "done" /\ vIsValid) =>
              \A i \in 1..Len(vResults) : vResults[i].passed)
  /\ [][vIsValid' => vIsValid]_vars

\* every stage was executed and passed, the total weight is 0, and the
\* result is invalid: the score 0 is below the default threshold
C38_Witness ==
  /\ vPc = "done"
  /\ vConfig.passing_threshold = DefaultThreshold
  /\ Len(vLog) >= 1
  /\ AllExecutedAndPassed
  /\ ~vIsValid

\* C39: for non-negative stage weights and any stage outputs, a bare
\* number above 1 included, the finalScore returned lies in [0,1].
C39_FinalScoreInUnitRange ==
  vPc = "done" => (vFinal.num >= 0 /\ vFinal.num <= 100 * vFinal.den)

\* a stage answered with the bare score 8 and the finalScore is above 1
C39_Witness ==
  /\ vPc = "done"
  /\ \E i \in 1..Len(vResults) : vResults[i].passed /\ vResults[i].score = 800
  /\ vFinal.num > 100 * vFinal.den

\* C40: in the analysis summary runs_with_errors never exceeds
\* total_runs_logged, total_runs_attempted equals total_runs_logged, and for
\* each of run_1..run_4 the completed, failed and pending counts add up to
\* total_runs_logged.
C40_SummaryCountsConsistent ==
  aPc = "returned" =>
    /\ aSummary.runs_with_errors <= aSummary.total_runs_logged
    /\ aSummary.total_runs_attempted = aSummary.total_runs_logged
    /\ \A k \in 1..4 :
         aSummary.runs_by_status[k]["completed"] + aSummary.runs_by_status[k]["failed"]
           + aSummary.runs_by_status[k]["pending"] = aSummary.total_runs_logged

\* one record was logged, two of its runs failed, and the summary counts
\* two runs with errors among one run logged
C40_Witness ==
  /\ aPc = "returned"
  /\ Len(aResults) = 1
  /\ aResults[1].runs[1] = "failed" /\ aResults[1].runs[2] = "failed"
  /\ aSummary.total_runs_logged = 1
  /\ aSummary.runs_with_errors >= 2

====
